---- MODULE Spec2Model ----
(***************************************************************************)
(* Repository structure validator                                          *)
(* (packages/dev-tools/src/validate-repo-structure.ts).                    *)
(*                                                                         *)
(* A file name is the sequence of its dot-separated components             *)
(* ("bar.spec.ts" is <<"bar","spec","ts">>), a path is the sequence of its *)
(* segments, each a name.  The host is POSIX: join() yields "/" and the    *)
(* replaceAll('\\','/') normalisation leaves the segments as they are.     *)
(* A RegExp of the configuration is the set of names (or paths) it         *)
(* matches.                                                                *)
(***************************************************************************)
EXTENDS Integers, Sequences, FiniteSets, TLC

VARIABLES
    tree,       \* the file tree under REPO_ROOT: a set of nodes
    mode,       \* "cli": import.meta.main; "import": a caller of validate; "walk": a caller of walkDirectory
    cfgModule,  \* ./repo-structure-config.js: "absent", "throws" or "ok"
    cfgValue,   \* what the module exports / what the caller passes
    harness,    \* the arguments of the direct walkDirectory call (mode "walk")
    config,     \* the parameter of the running validate call
    pc,         \* position of the program
    rule,       \* index into RuleOrder of the running rule check, 0 when none
    phase,      \* position inside the rule check
    loop,       \* entries the for loop of forEachPackageFixturesDir still has to visit
    stack,      \* frames of the running walkDirectory recursion, innermost last
    opts,       \* arguments of the top-level walkDirectory call that is running
    calls,      \* callback invocations of the current top-level walkDirectory call
    errors,     \* const errors: ValidationError[] (module scope)
    out,        \* what was written to stdout / stderr by this process
    exitCode,   \* process exit status, NoExit while the process runs
    thrown,     \* the exception in flight or caught, "none" otherwise
    runs,       \* validate calls begun in this process
    procs,      \* processes started so far
    finished,   \* the rule checks that returned in the running validate call
    ended       \* history: the errors list each validate call left at its exit decision

env == <<tree, mode, cfgModule, cfgValue, harness>>
vars == <<tree, mode, cfgModule, cfgValue, harness, config, pc, rule, phase, loop,
          stack, opts, calls, errors, out, exitCode, thrown, runs, procs, finished, ended>>

-----------------------------------------------------------------------------
\* Bounds of the model

MaxFeatures == 2
MaxRuns == 2
MaxProcs == 2
MaxNameParts == 4

NoExit == 0 - 1

-----------------------------------------------------------------------------
\* Names

N(a) == <<a>>
PACKAGE_JSON == <<"package", "json">>
PACKAGES == N("packages")
TEST == N("test")
FIXTURES == N("fixtures")
SRC == N("src")
EXAMPLES == N("examples")
SCRIPTS == N("scripts")
GENERATED == N("generated")
INTEGRATION == N("integration")
SYSTEM == N("system")
STAGING == N("staging")
DEV_TOOLS == N("dev-tools")
FOO == N("foo")
RUNTIME_X == N("runtime-x")
NODE_MODULES == N("node_modules")
DIST == N("dist")
GIT == <<"", "git">>
HUSKY == <<"", "husky">>
WORKTREES_DIR == <<"", "worktrees">>

COMMON_SKIP_DIRS == {NODE_MODULES, DIST, GIT}
SKIP_DIRS_WITH_HUSKY == COMMON_SKIP_DIRS \cup {HUSKY, WORKTREES_DIR}

FORBIDDEN_DIRECTORY == "forbidden-directory"
LARGE_FILE == "large-file"
STRUCTURAL_VIOLATION == "structural-violation"

\* String.prototype.toLowerCase on one component
ToLowerCase(s) ==
    CASE s = "SH" -> "sh"
      [] s = "ZIP" -> "zip"
      [] s = "Bat" -> "bat"
      [] OTHER -> s

\* name.endsWith("." + suffix[1] + "." + ... ): the suffix starts with a dot, so at
\* least one component (possibly empty) precedes it
EndsWith(name, suffix) ==
    /\ Len(name) > Len(suffix)
    /\ SubSeq(name, Len(name) - Len(suffix) + 1, Len(name)) = suffix

\* name.substring(name.lastIndexOf('.')): "." and the last component; the whole
\* name when it holds no dot (lastIndexOf is -1 and substring(-1) is substring(0))
Ext(name) ==
    IF Len(name) >= 2 THEN <<"", name[Len(name)]>> ELSE name

ExtToLowerCase(e) == [i \in 1..Len(e) |-> ToLowerCase(e[i])]

-----------------------------------------------------------------------------
\* The file tree.  A node is a directory entry: kind "dir" (Dirent.isDirectory()),
\* "file" (Dirent.isFile()) or "other" (a symbolic link, socket, ...: neither).
\* ok = FALSE: readdir of the directory fails, or stat of the file fails.

Node(p, k, sz, isOk) == [path |-> p, kind |-> k, size |-> sz, ok |-> isOk]
File(p) == Node(p, "file", 10, TRUE)
Sized(p, sz) == Node(p, "file", sz, TRUE)
Dir(p) == Node(p, "dir", 0, TRUE)

FooFixtures == <<PACKAGES, FOO, TEST, FIXTURES>>

\* The script itself: REPO_ROOT is three levels above the directory that holds it
SelfPath == <<PACKAGES, DEV_TOOLS, SRC, <<"validate-repo-structure", "ts">> >>

\* What a tree may hold beside the directories leading to it
Features == <<
    {File(<<PACKAGE_JSON>>), File(<<PACKAGES, FOO, PACKAGE_JSON>>),
     File(<<PACKAGES, FOO, SRC, <<"index", "ts">> >>),
     Sized(Append(FooFixtures, <<"exact", "json">>), 102400),
     Sized(Append(FooFixtures, <<"big", "ZIP">>), 204800),
     Sized(Append(FooFixtures, <<"big", "tar", "gz">>), 204800)},
    {File(<<PACKAGES, FOO, SRC, PACKAGE_JSON>>),
     File(<<PACKAGES, FOO, NODE_MODULES, PACKAGE_JSON>>), File(<<HUSKY, <<"hook", "sh">> >>)},
    {File(<< <<"main", "ts">> >>), File(<<PACKAGES, <<"notes", "ts">> >>),
     File(<< <<"vitest", "config", "ts">> >>),
     File(<<PACKAGES, FOO, <<"vitest", "config", "ts">> >>),
     File(<< <<"build", "SH">> >>), Node(<< <<"link", "sh">> >>, "other", 0, TRUE)},
    {File(<<PACKAGES, FOO, TEST, <<"bar", "spec", "ts">> >>),
     File(<<PACKAGES, FOO, TEST, <<"bar", "integration", "test", "ts">> >>),
     File(<<PACKAGES, FOO, TEST, <<"bar", "system", "test", "ts">> >>),
     File(<< <<"bar", "spec", "ts">> >>),
     File(<<PACKAGES, FOO, TEST, INTEGRATION, <<"bar", "test", "ts">> >>),
     File(<<PACKAGES, FOO, TEST, INTEGRATION, <<"bar", "integration", "test", "ts">> >>),
     File(<<TEST, INTEGRATION, <<"bar", "test", "ts">> >>),
     File(<<TEST, INTEGRATION, <<"bar", "integration", "test", "ts">> >>)},
    {Dir(<<PACKAGES, FOO, SCRIPTS>>), Dir(<<PACKAGES, DEV_TOOLS, SCRIPTS>>),
     Dir(<<PACKAGES, RUNTIME_X, EXAMPLES>>)},
    {Dir(Append(FooFixtures, STAGING)), Dir(FooFixtures \o <<N("proj"), STAGING>>),
     File(FooFixtures \o <<N("proj"), PACKAGE_JSON>>), Dir(<<STAGING>>),
     Node(<<N("locked")>>, "dir", 0, FALSE), File(<<N("locked"), <<"run", "sh">> >>),
     Node(Append(FooFixtures, N("locked")), "dir", 0, FALSE),
     Dir(FooFixtures \o <<N("locked"), STAGING>>)},
    {Sized(Append(FooFixtures, <<"big", "json">>), 102401)},
    {Node(Append(FooFixtures, <<"gone", "json">>), "file", 10, FALSE)},
    {File(<<PACKAGES, RUNTIME_X, EXAMPLES>>), File(<<PACKAGES, FOO, SCRIPTS>>)},
    {Node(<<PACKAGES>>, "dir", 0, FALSE)}
>>

\* The order in which readdir lists the entries of a directory
NameOrder == <<
    HUSKY, <<"bar", "integration", "test", "ts">>, <<"bar", "spec", "ts">>,
    <<"bar", "system", "test", "ts">>, <<"bar", "test", "ts">>, <<"big", "ZIP">>, <<"big", "tar", "gz">>, <<"big", "json">>, <<"build", "SH">>,
    DEV_TOOLS, <<"exact", "json">>, EXAMPLES, FIXTURES, FOO, <<"gone", "json">>,
    <<"hook", "sh">>, <<"index", "ts">>, INTEGRATION, <<"link", "sh">>, N("locked"),
    <<"main", "ts">>, NODE_MODULES, <<"notes", "ts">>, PACKAGE_JSON, PACKAGES,
    N("proj"), <<"run", "sh">>, RUNTIME_X, SCRIPTS, SRC, STAGING, TEST,
    <<"validate-repo-structure", "ts">>, <<"vitest", "config", "ts">>
>>

RECURSIVE FeatureSets(_)
FeatureSets(k) ==
    IF k = 0 THEN {{}}
    ELSE LET prev == FeatureSets(k - 1)
         IN  prev \cup {s \cup {i} : s \in prev, i \in 1..Len(Features)}

Prefixes(p) == {SubSeq(p, 1, i) : i \in 1..(Len(p) - 1)}

TreeOf(fs) ==
    LET given == {File(SelfPath)} \cup UNION {Features[i] : i \in fs}
        paths == {n.path : n \in given}
        above == UNION {Prefixes(p) : p \in paths}
    IN  given \cup {Dir(p) : p \in above \ paths}

WellFormed(t) ==
    /\ \A m, n \in t : m.path = n.path => m = n
    /\ \A n \in t : \A p \in Prefixes(n.path) :
          \E d \in t : d.path = p /\ d.kind = "dir"

Trees == {t \in {TreeOf(fs) : fs \in FeatureSets(MaxFeatures)} : WellFormed(t)}

\* REPO_ROOT, as a path in the tree
REPO_ROOT == <<>>

Exists(t, p) == p = REPO_ROOT \/ \E n \in t : n.path = p
NodeAt(t, p) == IF p = REPO_ROOT THEN Dir(p) ELSE CHOOSE n \in t : n.path = p

\* existsSync(path)
existsSync(t, p) == Exists(t, p)

\* readdir(dir, { withFileTypes: true }) succeeds
CanReaddir(t, d) == Exists(t, d) /\ NodeAt(t, d).kind = "dir" /\ NodeAt(t, d).ok

\* ... and resolves to these Dirents
EntryOf(t, d, nm) == [name |-> nm, kind |-> NodeAt(t, Append(d, nm)).kind]
IsListed(t, d, nm) == Exists(t, Append(d, nm))
readdir(t, d) ==
    LET listed == SelectSeq(NameOrder, LAMBDA nm : IsListed(t, d, nm))
    IN  [i \in 1..Len(listed) |-> EntryOf(t, d, listed[i])]

\* stat(fullPath) succeeds, and the size it reports
CanStat(t, p) == Exists(t, p) /\ NodeAt(t, p).ok
StatSize(t, p) == NodeAt(t, p).size

\* path.join(relativePath, name): '.' is the empty path
join(rel, nm) == Append(rel, nm)

-----------------------------------------------------------------------------
\* ValidatorConfig: an optional field is <<>> when absent and <<value>> when set

EmptyConfig ==
    [allowedScriptsPackages |-> <<>>, noExamplesPatterns |-> <<>>,
     allowedRootTsFiles |-> <<>>, allowedPackageTsPaths |-> <<>>]

ProjectConfig ==
    [allowedScriptsPackages |-> << {FOO} >>,
     noExamplesPatterns |-> << << {RUNTIME_X} >> >>,
     allowedRootTsFiles |-> << { << <<"main", "ts">> >> } >>,
     allowedPackageTsPaths |-> << << { <<PACKAGES, <<"notes", "ts">> >> } >> >>]

\* allowedScriptsPackages: [] and nothing else
BareConfig ==
    [allowedScriptsPackages |-> << {} >>, noExamplesPatterns |-> <<>>,
     allowedRootTsFiles |-> <<>>, allowedPackageTsPaths |-> <<>>]

Configs == {EmptyConfig, ProjectConfig, BareConfig}

\* field ?? fallback
OrElse(field, fallback) == IF field = <<>> THEN fallback ELSE field[1]

\* RegExp.prototype.test, patterns.some((p) => p.test(x))
RegExpTest(p, x) == x \in p
SomeTest(patterns, x) == \E i \in 1..Len(patterns) : RegExpTest(patterns[i], x)

-----------------------------------------------------------------------------
\* ValidationError records and the rules' callbacks

\* A message is its text and, for the fixture-size message, the rounded size in it
Text(m) == [text |-> m, kb |-> 0]
ValidationError(t, p, m, s) == [type |-> t, path |-> p, message |-> m, severity |-> s]

\* /^packages\/[^/]+\/package\.json$/
IsInPackagesDir(p) == Len(p) = 3 /\ p[1] = PACKAGES /\ p[3] = PACKAGE_JSON

\* /^packages\/[^/]+\/test\/fixtures\//
IsInTestFixtures(p) ==
    Len(p) >= 5 /\ p[1] = PACKAGES /\ p[3] = TEST /\ p[4] = FIXTURES

\* faulty variant of NestedPackageJsonOnFile: no exemption for test fixtures
NestedPackageJsonOnFileNoFixtures(name, relPath) ==
    IF /\ name = PACKAGE_JSON
       /\ relPath # <<PACKAGE_JSON>>
       /\ ~IsInPackagesDir(relPath)
    THEN << ValidationError(FORBIDDEN_DIRECTORY, relPath,
                            Text("Nested package.json detected."), "error") >>
    ELSE <<>>

\* onFile of validateNoNestedPackageJson
NestedPackageJsonOnFile(name, relPath) ==
    IF /\ name = PACKAGE_JSON
       /\ relPath # <<PACKAGE_JSON>>
       /\ ~IsInPackagesDir(relPath)
       /\ ~IsInTestFixtures(relPath)
    THEN << ValidationError(FORBIDDEN_DIRECTORY, relPath,
                            Text("Nested package.json detected."), "error") >>
    ELSE <<>>

BUILT_IN_ROOT_TS_FILES ==
    { << <<"eslint", "config", "ts">> >>, << <<"vitest", "config", "ts">> >>,
      << <<"vitest", "integration", "config", "ts">> >>,
      << <<"vitest", "system", "config", "ts">> >>,
      << <<"vitest", "workspace", "ts">> >> }

\* /^packages\/[^/]+\/(src|test|examples|generated|scripts)\//, one RegExp each
BuiltInPackagePattern(p) ==
    /\ Len(p) >= 4
    /\ p[1] = PACKAGES
    /\ p[3] \in {SRC, TEST, EXAMPLES, GENERATED, SCRIPTS}

\* /^packages\/[^/]+\/(vitest\.(config|integration\.config|system\.config)|knip\.config)\.ts$/
PACKAGE_CONFIG_PATTERN(p) ==
    /\ Len(p) = 3
    /\ p[1] = PACKAGES
    /\ p[3] \in { <<"vitest", "config", "ts">>, <<"vitest", "integration", "config", "ts">>,
                  <<"vitest", "system", "config", "ts">>, <<"knip", "config", "ts">> }

\* faulty variant of SourceFileOnFile: the package-level configuration files are not let through
SourceFileOnFileNoPackageConfig(cfg, name, relPath) ==
    LET allowedRootTsFiles == BUILT_IN_ROOT_TS_FILES \cup OrElse(cfg.allowedRootTsFiles, {})
        extraPackagePatterns == OrElse(cfg.allowedPackageTsPaths, <<>>)
        isAllowed == BuiltInPackagePattern(relPath) \/ SomeTest(extraPackagePatterns, relPath)
    IN  IF ~EndsWith(name, <<"ts">>) THEN <<>>
        ELSE IF relPath \in allowedRootTsFiles THEN <<>>
        ELSE IF ~isAllowed
             THEN << ValidationError(STRUCTURAL_VIOLATION, relPath,
                                     Text("TypeScript file in wrong location."), "error") >>
             ELSE <<>>

\* onFile of validateSourceFileLocations
SourceFileOnFile(cfg, name, relPath) ==
    LET allowedRootTsFiles == BUILT_IN_ROOT_TS_FILES \cup OrElse(cfg.allowedRootTsFiles, {})
        extraPackagePatterns == OrElse(cfg.allowedPackageTsPaths, <<>>)
        isAllowed == BuiltInPackagePattern(relPath) \/ SomeTest(extraPackagePatterns, relPath)
    IN  IF ~EndsWith(name, <<"ts">>) THEN <<>>
        ELSE IF relPath \in allowedRootTsFiles THEN <<>>
        ELSE IF PACKAGE_CONFIG_PATTERN(relPath) THEN <<>>
        ELSE IF ~isAllowed
             THEN << ValidationError(STRUCTURAL_VIOLATION, relPath,
                                     Text("TypeScript file in wrong location."), "error") >>
             ELSE <<>>

\* normalizedPath.includes('/test/<kind>/')
IncludesTestDir(p, kind) ==
    \E i \in 2..(Len(p) - 2) : p[i] = TEST /\ p[i + 1] = kind

\* faulty variant of TestFileNamingOnFile: the last check does not leave out the suffixed names
TestFileNamingOnFileUnitAnySuffix(name, relPath) ==
    LET isIntegration == EndsWith(name, <<"integration", "test", "ts">>)
        isSystem == EndsWith(name, <<"system", "test", "ts">>)
        spec == IF EndsWith(name, <<"spec", "ts">>)
                THEN << ValidationError(STRUCTURAL_VIOLATION, relPath,
                          Text("Use .test.ts instead of .spec.ts for consistency."), "error") >>
                ELSE <<>>
        integ == IF isIntegration /\ ~IncludesTestDir(relPath, INTEGRATION)
                 THEN << ValidationError(STRUCTURAL_VIOLATION, relPath,
                           Text("Integration tests must be in test/integration/ directory."), "error") >>
                 ELSE <<>>
        sys == IF isSystem /\ ~IncludesTestDir(relPath, SYSTEM)
               THEN << ValidationError(STRUCTURAL_VIOLATION, relPath,
                         Text("System tests must be in test/system/ directory."), "error") >>
               ELSE <<>>
        unit == IF /\ EndsWith(name, <<"test", "ts">>)
                   /\ (IncludesTestDir(relPath, INTEGRATION) \/ IncludesTestDir(relPath, SYSTEM))
                THEN << ValidationError(STRUCTURAL_VIOLATION, relPath,
                          Text("Unit tests in integration/system directories must use the suffix."), "error") >>
                ELSE <<>>
    IN  spec \o integ \o sys \o unit

\* faulty variant of TestFileNamingOnFile: the legacy suffix is let pass at the repository root
TestFileNamingOnFileSpecInPackagesOnly(name, relPath) ==
    LET isIntegration == EndsWith(name, <<"integration", "test", "ts">>)
        isSystem == EndsWith(name, <<"system", "test", "ts">>)
        spec == IF EndsWith(name, <<"spec", "ts">>) /\ Len(relPath) > 1
                THEN << ValidationError(STRUCTURAL_VIOLATION, relPath,
                          Text("Use .test.ts instead of .spec.ts for consistency."), "error") >>
                ELSE <<>>
        integ == IF isIntegration /\ ~IncludesTestDir(relPath, INTEGRATION)
                 THEN << ValidationError(STRUCTURAL_VIOLATION, relPath,
                           Text("Integration tests must be in test/integration/ directory."), "error") >>
                 ELSE <<>>
        sys == IF isSystem /\ ~IncludesTestDir(relPath, SYSTEM)
               THEN << ValidationError(STRUCTURAL_VIOLATION, relPath,
                         Text("System tests must be in test/system/ directory."), "error") >>
               ELSE <<>>
        unit == IF /\ EndsWith(name, <<"test", "ts">>)
                   /\ ~isIntegration
                   /\ ~isSystem
                   /\ (IncludesTestDir(relPath, INTEGRATION) \/ IncludesTestDir(relPath, SYSTEM))
                THEN << ValidationError(STRUCTURAL_VIOLATION, relPath,
                          Text("Unit tests in integration/system directories must use the suffix."), "error") >>
                ELSE <<>>
    IN  spec \o integ \o sys \o unit

\* onFile of validateTestFileNaming: four independent checks, in this order
TestFileNamingOnFile(name, relPath) ==
    LET isIntegration == EndsWith(name, <<"integration", "test", "ts">>)
        isSystem == EndsWith(name, <<"system", "test", "ts">>)
        spec == IF EndsWith(name, <<"spec", "ts">>)
                THEN << ValidationError(STRUCTURAL_VIOLATION, relPath,
                          Text("Use .test.ts instead of .spec.ts for consistency."), "error") >>
                ELSE <<>>
        integ == IF isIntegration /\ ~IncludesTestDir(relPath, INTEGRATION)
                 THEN << ValidationError(STRUCTURAL_VIOLATION, relPath,
                           Text("Integration tests must be in test/integration/ directory."), "error") >>
                 ELSE <<>>
        sys == IF isSystem /\ ~IncludesTestDir(relPath, SYSTEM)
               THEN << ValidationError(STRUCTURAL_VIOLATION, relPath,
                         Text("System tests must be in test/system/ directory."), "error") >>
               ELSE <<>>
        unit == IF /\ EndsWith(name, <<"test", "ts">>)
                   /\ ~isIntegration
                   /\ ~isSystem
                   /\ (IncludesTestDir(relPath, INTEGRATION) \/ IncludesTestDir(relPath, SYSTEM))
                THEN << ValidationError(STRUCTURAL_VIOLATION, relPath,
                          Text("Unit tests in integration/system directories must use the suffix."), "error") >>
                ELSE <<>>
    IN  spec \o integ \o sys \o unit

FORBIDDEN_EXTENSIONS == { <<"", "sh">>, <<"", "ps1">>, <<"", "bat">>, <<"", "cmd">> }

\* faulty variant of ShellScriptOnFile: the extension is compared as written
ShellScriptOnFileCaseSensitive(name, relPath) ==
    IF Ext(name) \in FORBIDDEN_EXTENSIONS
    THEN << ValidationError(FORBIDDEN_DIRECTORY, relPath,
                            Text("Shell scripts are forbidden."), "error") >>
    ELSE <<>>

\* onFile of validateNoShellScripts
ShellScriptOnFile(name, relPath) ==
    IF ExtToLowerCase(Ext(name)) \in FORBIDDEN_EXTENSIONS
    THEN << ValidationError(FORBIDDEN_DIRECTORY, relPath,
                            Text("Shell scripts are forbidden."), "error") >>
    ELSE <<>>

\* faulty variant of StagingOnDirectory: only the entries of the fixtures directory itself are looked at
StagingOnDirectoryTopLevelOnly(name, relPath) ==
    IF name = STAGING /\ Len(relPath) = 5
    THEN << ValidationError(FORBIDDEN_DIRECTORY, relPath,
                            Text("Staging directories should not be committed."), "error") >>
    ELSE <<>>

\* onDirectory of validateNoStagingDirectories
StagingOnDirectory(name, relPath) ==
    IF name = STAGING
    THEN << ValidationError(FORBIDDEN_DIRECTORY, relPath,
                            Text("Staging directories should not be committed."), "error") >>
    ELSE <<>>

MAX_SIZE_KB == 100
BytesPerKB == 1024
ALLOWED_LARGE_EXTENSIONS ==
    { <<"", "zip">>, <<"", "tar">>, <<"", "gz">>, <<"", "tgz">>, <<"", "tar", "gz">> }

\* Math.round(size / 1024)
RoundKB(size) == (2 * size + BytesPerKB) \div (2 * BytesPerKB)

\* faulty variant of FixtureSizeOnFile: a large fixture is an error
FixtureSizeOnFileAsError(name, relPath, size) ==
    IF size > MAX_SIZE_KB * BytesPerKB /\ ExtToLowerCase(Ext(name)) \notin ALLOWED_LARGE_EXTENSIONS
    THEN << ValidationError(LARGE_FILE, relPath,
                            [text |-> "File is <kb>KB (>100KB).", kb |-> RoundKB(size)], "error") >>
    ELSE <<>>

\* faulty variant of FixtureSizeOnFile: a file of exactly the limit is reported too
FixtureSizeOnFileAtLeast(name, relPath, size) ==
    IF size >= MAX_SIZE_KB * BytesPerKB /\ ExtToLowerCase(Ext(name)) \notin ALLOWED_LARGE_EXTENSIONS
    THEN << ValidationError(LARGE_FILE, relPath,
                            [text |-> "File is <kb>KB (>100KB).", kb |-> RoundKB(size)], "warning") >>
    ELSE <<>>

\* onFile of validateTestFixtureSizes, once stat has resolved to `size`:
\* sizeKB > MAX_SIZE_KB over the reals is size > MAX_SIZE_KB * 1024
FixtureSizeOnFile(name, relPath, size) ==
    IF size > MAX_SIZE_KB * BytesPerKB /\ ExtToLowerCase(Ext(name)) \notin ALLOWED_LARGE_EXTENSIONS
    THEN << ValidationError(LARGE_FILE, relPath,
                            [text |-> "File is <kb>KB (>100KB).", kb |-> RoundKB(size)], "warning") >>
    ELSE <<>>

-----------------------------------------------------------------------------
\* walkDirectory

Frame(d, r) == [dir |-> d, rel |-> r, read |-> FALSE, todo |-> <<>>]
NoOpts == [dir |-> REPO_ROOT, rel |-> <<>>, skipDirs |-> {}, onDirectory |-> "none", onFile |-> "none"]

\* the arguments of a walkDirectory call: dir, relativePath and the options o
Args(d, r, o) ==
    [dir |-> d, rel |-> r, skipDirs |-> o.skipDirs, onDirectory |-> o.onDirectory,
     onFile |-> o.onFile]
NoHarness == [dir |-> REPO_ROOT, rel |-> <<>>, skipDirs |-> {}]

\* The direct calls of walkDirectory the model makes, both callbacks given
Harnesses ==
    [dir : {REPO_ROOT}, rel : {<<>>}, skipDirs : {{}, {NODE_MODULES, TEST}, {FOO}}]
    \cup [dir : {<<PACKAGES>>}, rel : {<<N("base")>>}, skipDirs : {{}, {NODE_MODULES, TEST}}]
    \cup [dir : {<<N("locked")>>}, rel : {<<>>}, skipDirs : {{}}]

RuleOrder == <<
    "validateNoNestedPackageJson", "validateSourceFileLocations", "validateTestFileNaming",
    "validateNoExamplesInPatternPackages", "validateScriptsLocation", "validateNoShellScripts",
    "validateNoStagingDirectories", "validateTestFixtureSizes" >>

NumRules == Len(RuleOrder)
TreeWalkRules == {1, 2, 3, 6}
FixturesRules == {7, 8}

\* The options each rule check passes to walkDirectory
RuleOpts(r) ==
    CASE r = 1 -> [skipDirs |-> COMMON_SKIP_DIRS \cup {WORKTREES_DIR},
                   onDirectory |-> "none", onFile |-> RuleOrder[1]]
      [] r = 2 -> [skipDirs |-> {NODE_MODULES, DIST, GIT, HUSKY, WORKTREES_DIR},
                   onDirectory |-> "none", onFile |-> RuleOrder[2]]
      [] r = 3 -> [skipDirs |-> COMMON_SKIP_DIRS,
                   onDirectory |-> "none", onFile |-> RuleOrder[3]]
      [] r = 6 -> [skipDirs |-> SKIP_DIRS_WITH_HUSKY,
                   onDirectory |-> "none", onFile |-> RuleOrder[6]]
      [] r = 7 -> [skipDirs |-> {}, onDirectory |-> RuleOrder[7], onFile |-> "none"]
      [] r = 8 -> [skipDirs |-> {}, onDirectory |-> "none", onFile |-> RuleOrder[8]]

\* await options.onFile({ name, fullPath, relPath }) rejects
OnFileThrows(t, id, fullPath) == id = RuleOrder[8] /\ ~CanStat(t, fullPath)

\* what options.onFile pushes to errors
OnFile(t, cfg, id, name, fullPath, relPath) ==
    CASE id = RuleOrder[1] -> NestedPackageJsonOnFile(name, relPath)
      [] id = RuleOrder[2] -> SourceFileOnFile(cfg, name, relPath)
      [] id = RuleOrder[3] -> TestFileNamingOnFile(name, relPath)
      [] id = RuleOrder[6] -> ShellScriptOnFile(name, relPath)
      [] id = RuleOrder[8] -> FixtureSizeOnFile(name, relPath, StatSize(t, fullPath))
      [] OTHER -> <<>>

\* what options.onDirectory pushes to errors
OnDirectory(id, name, relPath) ==
    IF id = RuleOrder[7] THEN StagingOnDirectory(name, relPath) ELSE <<>>

Call(k, nm, fullPath, relPath) ==
    [kind |-> k, name |-> nm, fullPath |-> fullPath, relPath |-> relPath]

Top == stack[Len(stack)]
Pop == SubSeq(stack, 1, Len(stack) - 1)
Entry == Head(Top.todo)
EntryFullPath == join(Top.dir, Entry.name)
EntryRelPath == join(Top.rel, Entry.name)
AtEntry == stack # <<>> /\ Top.read /\ Top.todo # <<>>

\* An exception leaves validate: to the catch of the main block, or to the caller
Throw(what) ==
    /\ thrown' = what
    /\ pc' = IF mode = "cli" THEN "catch" ELSE "rejected"
    /\ rule' = 0
    /\ phase' = "none"
    /\ stack' = <<>>
    /\ loop' = <<>>

\* entries = await readdir(dir, { withFileTypes: true })
WalkReaddir ==
    /\ stack # <<>>
    /\ ~Top.read
    /\ CanReaddir(tree, Top.dir)
    /\ stack' = [stack EXCEPT ![Len(stack)] =
                    [Top EXCEPT !.read = TRUE, !.todo = readdir(tree, Top.dir)]]
    /\ UNCHANGED <<env, config, pc, rule, phase, loop, opts, calls, errors, out,
                   exitCode, thrown, runs, procs, finished, ended>>

\* faulty variant of WalkReaddirFails: the rejection of readdir is not caught
WalkReaddirRethrows ==
    /\ stack # <<>>
    /\ ~Top.read
    /\ ~CanReaddir(tree, Top.dir)
    /\ Throw("readdir")
    /\ UNCHANGED <<env, config, opts, calls, errors, out, exitCode, runs, procs,
                   finished, ended>>

\* catch { return }
WalkReaddirFails ==
    /\ stack # <<>>
    /\ ~Top.read
    /\ ~CanReaddir(tree, Top.dir)
    /\ stack' = Pop
    /\ UNCHANGED <<env, config, pc, rule, phase, loop, opts, calls, errors, out,
                   exitCode, thrown, runs, procs, finished, ended>>

\* faulty variant of WalkSkipDir: return instead of continue
WalkSkipDirReturns ==
    /\ AtEntry
    /\ Entry.kind = "dir"
    /\ Entry.name \in opts.skipDirs
    /\ stack' = Pop
    /\ UNCHANGED <<env, config, pc, rule, phase, loop, opts, calls, errors, out,
                   exitCode, thrown, runs, procs, finished, ended>>

\* entry.isDirectory() and options.skipDirs?.has(entry.name): continue
WalkSkipDir ==
    /\ AtEntry
    /\ Entry.kind = "dir"
    /\ Entry.name \in opts.skipDirs
    /\ stack' = [stack EXCEPT ![Len(stack)] = [Top EXCEPT !.todo = Tail(Top.todo)]]
    /\ UNCHANGED <<env, config, pc, rule, phase, loop, opts, calls, errors, out,
                   exitCode, thrown, runs, procs, finished, ended>>

\* faulty variant of WalkDirectory: the skip set is not consulted
WalkDirectoryNoSkip ==
    /\ AtEntry
    /\ Entry.kind = "dir"
    /\ calls' = IF opts.onDirectory # "none"
                THEN Append(calls, Call("dir", Entry.name, EntryFullPath, EntryRelPath))
                ELSE calls
    /\ errors' = errors \o OnDirectory(opts.onDirectory, Entry.name, EntryRelPath)
    /\ stack' = Append([stack EXCEPT ![Len(stack)] = [Top EXCEPT !.todo = Tail(Top.todo)]],
                       Frame(EntryFullPath, EntryRelPath))
    /\ UNCHANGED <<env, config, pc, rule, phase, loop, opts, out,
                   exitCode, thrown, runs, procs, finished, ended>>

\* faulty variant of WalkDirectory: onDirectory is handed the directory being listed, not the entry
WalkDirectoryWrongEntry ==
    /\ AtEntry
    /\ Entry.kind = "dir"
    /\ Entry.name \notin opts.skipDirs
    /\ calls' = IF opts.onDirectory # "none"
                THEN Append(calls, Call("dir", Entry.name, Top.dir, Top.rel))
                ELSE calls
    /\ errors' = errors \o OnDirectory(opts.onDirectory, Entry.name, Top.rel)
    /\ stack' = Append([stack EXCEPT ![Len(stack)] = [Top EXCEPT !.todo = Tail(Top.todo)]],
                       Frame(EntryFullPath, EntryRelPath))
    /\ UNCHANGED <<env, config, pc, rule, phase, loop, opts, out,
                   exitCode, thrown, runs, procs, finished, ended>>

\* entry.isDirectory(): onDirectory if given, then walkDirectory(fullPath, relPath, options)
WalkDirectory ==
    /\ AtEntry
    /\ Entry.kind = "dir"
    /\ Entry.name \notin opts.skipDirs
    /\ calls' = IF opts.onDirectory # "none"
                THEN Append(calls, Call("dir", Entry.name, EntryFullPath, EntryRelPath))
                ELSE calls
    /\ errors' = errors \o OnDirectory(opts.onDirectory, Entry.name, EntryRelPath)
    /\ stack' = Append([stack EXCEPT ![Len(stack)] = [Top EXCEPT !.todo = Tail(Top.todo)]],
                       Frame(EntryFullPath, EntryRelPath))
    /\ UNCHANGED <<env, config, pc, rule, phase, loop, opts, out,
                   exitCode, thrown, runs, procs, finished, ended>>

\* faulty variant of WalkFile: a file the fixture-size rule finds too large is deleted
WalkFileRemovesLarge ==
    /\ AtEntry
    /\ Entry.kind = "file"
    /\ ~OnFileThrows(tree, opts.onFile, EntryFullPath)
    /\ calls' = IF opts.onFile # "none"
                THEN Append(calls, Call("file", Entry.name, EntryFullPath, EntryRelPath))
                ELSE calls
    /\ errors' = errors \o OnFile(tree, config, opts.onFile, Entry.name, EntryFullPath, EntryRelPath)
    /\ stack' = [stack EXCEPT ![Len(stack)] = [Top EXCEPT !.todo = Tail(Top.todo)]]
    /\ tree' = IF opts.onFile = RuleOrder[8] /\ StatSize(tree, EntryFullPath) > MAX_SIZE_KB * BytesPerKB
               THEN tree \ {NodeAt(tree, EntryFullPath)} ELSE tree
    /\ UNCHANGED <<mode, cfgModule, cfgValue, harness, config, pc, rule, phase, loop, opts, out,
                   exitCode, thrown, runs, procs, finished, ended>>

\* faulty variant of WalkFile: what the callback reports goes to the front of the list
WalkFilePrepends ==
    /\ AtEntry
    /\ Entry.kind = "file"
    /\ ~OnFileThrows(tree, opts.onFile, EntryFullPath)
    /\ calls' = IF opts.onFile # "none"
                THEN Append(calls, Call("file", Entry.name, EntryFullPath, EntryRelPath))
                ELSE calls
    /\ errors' = OnFile(tree, config, opts.onFile, Entry.name, EntryFullPath, EntryRelPath) \o errors
    /\ stack' = [stack EXCEPT ![Len(stack)] = [Top EXCEPT !.todo = Tail(Top.todo)]]
    /\ UNCHANGED <<env, config, pc, rule, phase, loop, opts, out,
                   exitCode, thrown, runs, procs, finished, ended>>

\* entry.isFile(): onFile if given
WalkFile ==
    /\ AtEntry
    /\ Entry.kind = "file"
    /\ ~OnFileThrows(tree, opts.onFile, EntryFullPath)
    /\ calls' = IF opts.onFile # "none"
                THEN Append(calls, Call("file", Entry.name, EntryFullPath, EntryRelPath))
                ELSE calls
    /\ errors' = errors \o OnFile(tree, config, opts.onFile, Entry.name, EntryFullPath, EntryRelPath)
    /\ stack' = [stack EXCEPT ![Len(stack)] = [Top EXCEPT !.todo = Tail(Top.todo)]]
    /\ UNCHANGED <<env, config, pc, rule, phase, loop, opts, out,
                   exitCode, thrown, runs, procs, finished, ended>>

\* entry.isFile() and the callback rejects: stat(fullPath) failed
WalkFileThrows ==
    /\ AtEntry
    /\ Entry.kind = "file"
    /\ OnFileThrows(tree, opts.onFile, EntryFullPath)
    /\ calls' = Append(calls, Call("file", Entry.name, EntryFullPath, EntryRelPath))
    /\ Throw("stat")
    /\ UNCHANGED <<env, config, opts, errors, out, exitCode, runs, procs, finished, ended>>

\* faulty variant of WalkOther: the loop does not get past the entry
WalkOtherStays ==
    /\ AtEntry
    /\ Entry.kind = "other"
    /\ UNCHANGED vars

\* neither a directory nor a regular file: no branch of the loop body applies
WalkOther ==
    /\ AtEntry
    /\ Entry.kind = "other"
    /\ stack' = [stack EXCEPT ![Len(stack)] = [Top EXCEPT !.todo = Tail(Top.todo)]]
    /\ UNCHANGED <<env, config, pc, rule, phase, loop, opts, calls, errors, out,
                   exitCode, thrown, runs, procs, finished, ended>>

\* the for loop of a walkDirectory call ends: the call returns to the one that made it
WalkReturn ==
    /\ stack # <<>>
    /\ Top.read
    /\ Top.todo = <<>>
    /\ stack' = Pop
    /\ UNCHANGED <<env, config, pc, rule, phase, loop, opts, calls, errors, out,
                   exitCode, thrown, runs, procs, finished, ended>>

-----------------------------------------------------------------------------
\* The rule checks

PackagesDir == <<PACKAGES>>

\* a rule check whose walk covers the whole tree calls walkDirectory(REPO_ROOT, '.')
StartTreeWalk ==
    /\ pc = "rule"
    /\ phase = "start"
    /\ rule \in TreeWalkRules
    /\ opts' = Args(REPO_ROOT, <<>>, RuleOpts(rule))
    /\ stack' = <<Frame(REPO_ROOT, <<>>)>>
    /\ calls' = <<>>
    /\ phase' = "walk"
    /\ UNCHANGED <<env, config, pc, rule, loop, errors, out, exitCode, thrown, runs,
                   procs, finished, ended>>

\* ... and returns when that call does
TreeWalkReturns ==
    /\ pc = "rule"
    /\ phase = "walk"
    /\ rule \in TreeWalkRules
    /\ stack = <<>>
    /\ phase' = "done"
    /\ UNCHANGED <<env, config, pc, rule, loop, stack, opts, calls, errors, out,
                   exitCode, thrown, runs, procs, finished, ended>>

\* validateNoExamplesInPatternPackages: if (patterns.length === 0) return
ExamplesNoPatterns ==
    /\ pc = "rule"
    /\ phase = "start"
    /\ rule = 4
    /\ Len(OrElse(config.noExamplesPatterns, <<>>)) = 0
    /\ phase' = "done"
    /\ UNCHANGED <<env, config, pc, rule, loop, stack, opts, calls, errors, out,
                   exitCode, thrown, runs, procs, finished, ended>>

\* await readdir(packagesDir, ...) rejects
ExamplesReaddirThrows ==
    /\ pc = "rule"
    /\ phase = "start"
    /\ rule = 4
    /\ Len(OrElse(config.noExamplesPatterns, <<>>)) # 0
    /\ ~CanReaddir(tree, PackagesDir)
    /\ Throw("readdir")
    /\ UNCHANGED <<env, config, opts, calls, errors, out, exitCode, runs, procs,
                   finished, ended>>

ExamplesFlagged(t, cfg) ==
    SelectSeq(readdir(t, PackagesDir),
              LAMBDA e : /\ e.kind = "dir"
                         /\ SomeTest(OrElse(cfg.noExamplesPatterns, <<>>), e.name)
                         /\ existsSync(t, <<PACKAGES, e.name, EXAMPLES>>))

ExamplesErrors(t, cfg) ==
    LET flagged == ExamplesFlagged(t, cfg)
    IN  [i \in 1..Len(flagged) |->
            ValidationError(FORBIDDEN_DIRECTORY, <<PACKAGES, flagged[i].name, EXAMPLES, N("")>>,
                            Text("Package matches a restricted pattern and must not have an /examples directory."),
                            "error")]

\* the for loop over the entries of packages/
ExamplesChecked ==
    /\ pc = "rule"
    /\ phase = "start"
    /\ rule = 4
    /\ Len(OrElse(config.noExamplesPatterns, <<>>)) # 0
    /\ CanReaddir(tree, PackagesDir)
    /\ errors' = errors \o ExamplesErrors(tree, config)
    /\ phase' = "done"
    /\ UNCHANGED <<env, config, pc, rule, loop, stack, opts, calls, out,
                   exitCode, thrown, runs, procs, finished, ended>>

\* validateScriptsLocation: await readdir(packagesDir, ...) rejects
ScriptsReaddirThrows ==
    /\ pc = "rule"
    /\ phase = "start"
    /\ rule = 5
    /\ ~CanReaddir(tree, PackagesDir)
    /\ Throw("readdir")
    /\ UNCHANGED <<env, config, opts, calls, errors, out, exitCode, runs, procs,
                   finished, ended>>

\* faulty variant of ScriptsFlagged: a configured list extends the default
ScriptsFlaggedDefaultKept(t, cfg) ==
    SelectSeq(readdir(t, PackagesDir),
              LAMBDA e : /\ e.kind = "dir"
                         /\ e.name \notin (OrElse(cfg.allowedScriptsPackages, {}) \cup {DEV_TOOLS})
                         /\ existsSync(t, <<PACKAGES, e.name, SCRIPTS>>))

ScriptsFlagged(t, cfg) ==
    SelectSeq(readdir(t, PackagesDir),
              LAMBDA e : /\ e.kind = "dir"
                         /\ e.name \notin OrElse(cfg.allowedScriptsPackages, {DEV_TOOLS})
                         /\ existsSync(t, <<PACKAGES, e.name, SCRIPTS>>))

ScriptsErrors(t, cfg) ==
    LET flagged == ScriptsFlagged(t, cfg)
    IN  [i \in 1..Len(flagged) |->
            ValidationError(FORBIDDEN_DIRECTORY, <<PACKAGES, flagged[i].name, SCRIPTS, N("")>>,
                            Text("Only packages in allowedScriptsPackages may have /scripts directories."),
                            "error")]

\* faulty variant of ScriptsChecked: the rule reports only into a list that is still empty
ScriptsCheckedIfEmpty ==
    /\ pc = "rule"
    /\ phase = "start"
    /\ rule = 5
    /\ CanReaddir(tree, PackagesDir)
    /\ errors' = IF errors = <<>> THEN ScriptsErrors(tree, config) ELSE errors
    /\ phase' = "done"
    /\ UNCHANGED <<env, config, pc, rule, loop, stack, opts, calls, out,
                   exitCode, thrown, runs, procs, finished, ended>>

ScriptsChecked ==
    /\ pc = "rule"
    /\ phase = "start"
    /\ rule = 5
    /\ CanReaddir(tree, PackagesDir)
    /\ errors' = errors \o ScriptsErrors(tree, config)
    /\ phase' = "done"
    /\ UNCHANGED <<env, config, pc, rule, loop, stack, opts, calls, out,
                   exitCode, thrown, runs, procs, finished, ended>>

\* forEachPackageFixturesDir: entries = await readdir(packagesDir, ...), which
\* rejects when packages/ cannot be listed
FixturesReaddir ==
    /\ pc = "rule"
    /\ phase = "start"
    /\ rule \in FixturesRules
    /\ IF CanReaddir(tree, PackagesDir)
       THEN /\ loop' = readdir(tree, PackagesDir)
            /\ phase' = "loop"
            /\ UNCHANGED <<pc, rule, stack, thrown>>
       ELSE Throw("readdir")
    /\ UNCHANGED <<env, config, opts, calls, errors, out, exitCode, runs, procs,
                   finished, ended>>

FixturesDirOf(nm) == <<PACKAGES, nm, TEST, FIXTURES>>

\* entry.isDirectory(): checkDirectory(fixturesDir, `packages/${entry.name}/test/fixtures`)
FixturesNextPackage ==
    /\ pc = "rule"
    /\ phase = "loop"
    /\ loop # <<>>
    /\ Head(loop).kind = "dir"
    /\ opts' = Args(FixturesDirOf(Head(loop).name), FixturesDirOf(Head(loop).name),
                    RuleOpts(rule))
    /\ stack' = <<Frame(FixturesDirOf(Head(loop).name), FixturesDirOf(Head(loop).name))>>
    /\ calls' = <<>>
    /\ loop' = Tail(loop)
    /\ phase' = "walk"
    /\ UNCHANGED <<env, config, pc, rule, errors, out, exitCode, thrown, runs,
                   procs, finished, ended>>

FixturesSkipEntry ==
    /\ pc = "rule"
    /\ phase = "loop"
    /\ loop # <<>>
    /\ Head(loop).kind # "dir"
    /\ loop' = Tail(loop)
    /\ UNCHANGED <<env, config, pc, rule, phase, stack, opts, calls, errors, out,
                   exitCode, thrown, runs, procs, finished, ended>>

\* checkDirectory returns: back in the loop of forEachPackageFixturesDir
FixturesWalkReturns ==
    /\ pc = "rule"
    /\ phase = "walk"
    /\ rule \in FixturesRules
    /\ stack = <<>>
    /\ phase' = "loop"
    /\ UNCHANGED <<env, config, pc, rule, loop, stack, opts, calls, errors, out,
                   exitCode, thrown, runs, procs, finished, ended>>

FixturesLoopEnds ==
    /\ pc = "rule"
    /\ phase = "loop"
    /\ loop = <<>>
    /\ phase' = "done"
    /\ UNCHANGED <<env, config, pc, rule, loop, stack, opts, calls, errors, out,
                   exitCode, thrown, runs, procs, finished, ended>>

-----------------------------------------------------------------------------
\* validate, printResults and the main block

\* faulty variant of HasErrors: any violation at all fails the run
HasAnyViolation(errs) == Len(errs) > 0

\* errors.some((e) => e.severity === 'error')
HasErrors(errs) == \E i \in 1..Len(errs) : errs[i].severity = "error"
CountSeverity(errs, sev) == Cardinality({i \in 1..Len(errs) : errs[i].severity = sev})

Line(k, ty, ec, wc, vs) ==
    [kind |-> k, type |-> ty, errorCount |-> ec, warningCount |-> wc, violations |-> vs]

\* the keys of byType, in the order errors.reduce inserts them
RECURSIVE TypesInOrder(_, _)
TypesInOrder(errs, seen) ==
    IF errs = <<>> THEN <<>>
    ELSE IF Head(errs).type \in seen THEN TypesInOrder(Tail(errs), seen)
    ELSE <<Head(errs).type>> \o TypesInOrder(Tail(errs), seen \cup {Head(errs).type})

OfType(errs, ty) == SelectSeq(errs, LAMBDA e : e.type = ty)

\* faulty variant of Report: the success banner whenever the list holds no error
ReportPassedWithoutErrors(errs) ==
    IF ~HasErrors(errs) THEN << Line("passed", "", 0, 0, <<>>) >>
    ELSE LET types == TypesInOrder(errs, {})
         IN  << Line("failed", "", CountSeverity(errs, "error"),
                     CountSeverity(errs, "warning"), <<>>) >>
             \o [i \in 1..Len(types) |-> Line("group", types[i], 0, 0, OfType(errs, types[i]))]

\* what printResults writes
Report(errs) ==
    IF Len(errs) = 0 THEN << Line("passed", "", 0, 0, <<>>) >>
    ELSE LET types == TypesInOrder(errs, {})
         IN  << Line("failed", "", CountSeverity(errs, "error"),
                     CountSeverity(errs, "warning"), <<>>) >>
             \o [i \in 1..Len(types) |-> Line("group", types[i], 0, 0, OfType(errs, types[i]))]

\* the main block: config = (await import('./repo-structure-config.js')).config
LoadConfig ==
    /\ pc = "main"
    /\ cfgModule = "ok"
    /\ config' = cfgValue
    /\ pc' = "validate"
    /\ UNCHANGED <<env, rule, phase, loop, stack, opts, calls, errors, out, exitCode,
                   thrown, runs, procs, finished, ended>>

\* faulty variant of LoadConfigCatch: the failed import reaches the outer catch
LoadConfigRethrows ==
    /\ pc = "main"
    /\ cfgModule # "ok"
    /\ thrown' = "import"
    /\ pc' = "catch"
    /\ UNCHANGED <<env, config, rule, phase, loop, stack, opts, calls, errors, out,
                   exitCode, runs, procs, finished, ended>>

\* the import rejects, whatever the reason: catch { } leaves config = {}
LoadConfigCatch ==
    /\ pc = "main"
    /\ cfgModule # "ok"
    /\ config' = EmptyConfig
    /\ pc' = "validate"
    /\ UNCHANGED <<env, rule, phase, loop, stack, opts, calls, errors, out, exitCode,
                   thrown, runs, procs, finished, ended>>

\* a caller that imported the module calls validate(config)
CallValidate ==
    /\ mode = "import"
    /\ pc \in {"idle", "returned", "rejected"}
    /\ runs < MaxRuns
    /\ config' = cfgValue
    /\ thrown' = "none"
    /\ pc' = "validate"
    /\ UNCHANGED <<env, rule, phase, loop, stack, opts, calls, errors, out, exitCode,
                   runs, procs, finished, ended>>

\* validate: the first console.log, then the first rule check
ValidateBegins ==
    /\ pc = "validate"
    /\ runs' = runs + 1
    /\ out' = Append(out, Line("validating", "", 0, 0, <<>>))
    /\ finished' = {}
    /\ rule' = 1
    /\ phase' = "start"
    /\ pc' = "rule"
    /\ UNCHANGED <<env, config, loop, stack, opts, calls, errors, exitCode, thrown,
                   procs, ended>>

\* faulty variant of RuleReturns: validate stops checking once the list holds an error
RuleReturnsFailFast ==
    /\ pc = "rule"
    /\ phase = "done"
    /\ finished' = finished \cup {rule}
    /\ IF rule < NumRules /\ ~HasErrors(errors)
       THEN /\ rule' = rule + 1
            /\ phase' = "start"
            /\ pc' = "rule"
       ELSE /\ rule' = 0
            /\ phase' = "none"
            /\ pc' = "print"
    /\ UNCHANGED <<env, config, loop, stack, opts, calls, errors, out, exitCode,
                   thrown, runs, procs, ended>>

\* a rule check returns: the next await of validate, or printResults after the last
RuleReturns ==
    /\ pc = "rule"
    /\ phase = "done"
    /\ finished' = finished \cup {rule}
    /\ IF rule < NumRules
       THEN /\ rule' = rule + 1
            /\ phase' = "start"
            /\ pc' = "rule"
       ELSE /\ rule' = 0
            /\ phase' = "none"
            /\ pc' = "print"
    /\ UNCHANGED <<env, config, loop, stack, opts, calls, errors, out, exitCode,
                   thrown, runs, procs, ended>>

\* faulty variant of PrintResults: nothing is printed for an empty list
PrintResultsOnlyViolations ==
    /\ pc = "print"
    /\ out' = IF errors = <<>> THEN out ELSE out \o Report(errors)
    /\ pc' = "decide"
    /\ UNCHANGED <<env, config, rule, phase, loop, stack, opts, calls, errors, exitCode,
                   thrown, runs, procs, finished, ended>>

PrintResults ==
    /\ pc = "print"
    /\ out' = out \o Report(errors)
    /\ pc' = "decide"
    /\ UNCHANGED <<env, config, rule, phase, loop, stack, opts, calls, errors, exitCode,
                   thrown, runs, procs, finished, ended>>

Ended == Append(ended, [proc |-> procs, run |-> runs, list |-> errors])

\* if (hasErrors) process.exit(1)
DecideExit ==
    /\ pc = "decide"
    /\ HasErrors(errors)
    /\ exitCode' = 1
    /\ pc' = "exited"
    /\ ended' = Ended
    /\ UNCHANGED <<env, config, rule, phase, loop, stack, opts, calls, errors, out,
                   thrown, runs, procs, finished>>

\* otherwise validate returns
DecideReturn ==
    /\ pc = "decide"
    /\ ~HasErrors(errors)
    /\ pc' = "returned"
    /\ ended' = Ended
    /\ UNCHANGED <<env, config, rule, phase, loop, stack, opts, calls, errors, out,
                   exitCode, thrown, runs, procs, finished>>

\* the main block ends with nothing left to run: the process exits with status 0
MainReturns ==
    /\ mode = "cli"
    /\ pc = "returned"
    /\ exitCode' = 0
    /\ pc' = "exited"
    /\ UNCHANGED <<env, config, rule, phase, loop, stack, opts, calls, errors, out,
                   thrown, runs, procs, finished, ended>>

\* faulty variant of TopLevelCatch: the failure is reported with the status of found violations
TopLevelCatchExitOne ==
    /\ pc = "catch"
    /\ out' = Append(out, Line("script-failed", "", 0, 0, <<>>))
    /\ exitCode' = 1
    /\ pc' = "exited"
    /\ UNCHANGED <<env, config, rule, phase, loop, stack, opts, calls, errors,
                   thrown, runs, procs, finished, ended>>

\* catch (error) { console.error(...); process.exit(2) }
TopLevelCatch ==
    /\ pc = "catch"
    /\ out' = Append(out, Line("script-failed", "", 0, 0, <<>>))
    /\ exitCode' = 2
    /\ pc' = "exited"
    /\ UNCHANGED <<env, config, rule, phase, loop, stack, opts, calls, errors,
                   thrown, runs, procs, finished, ended>>

StartPc == CASE mode = "cli" -> "main" [] mode = "import" -> "idle" [] OTHER -> "harness"

\* faulty variant of NewProcess: the list of the process before is still there
NewProcessKeepsErrors ==
    /\ pc = "exited"
    /\ procs < MaxProcs
    /\ procs' = procs + 1
    /\ out' = <<>>
    /\ exitCode' = NoExit
    /\ thrown' = "none"
    /\ runs' = 0
    /\ config' = EmptyConfig
    /\ finished' = {}
    /\ calls' = <<>>
    /\ opts' = NoOpts
    /\ pc' = StartPc
    /\ UNCHANGED <<env, rule, phase, loop, stack, errors, ended>>

\* the command is run again: a new process evaluates the module anew, on the same tree
NewProcess ==
    /\ pc = "exited"
    /\ procs < MaxProcs
    /\ procs' = procs + 1
    /\ errors' = <<>>
    /\ out' = <<>>
    /\ exitCode' = NoExit
    /\ thrown' = "none"
    /\ runs' = 0
    /\ config' = EmptyConfig
    /\ finished' = {}
    /\ calls' = <<>>
    /\ opts' = NoOpts
    /\ pc' = StartPc
    /\ UNCHANGED <<env, rule, phase, loop, stack, ended>>

\* a direct call walkDirectory(dir, rel, { skipDirs, onDirectory, onFile })
HarnessCalls ==
    /\ pc = "harness"
    /\ opts' = Args(harness.dir, harness.rel,
                    [skipDirs |-> harness.skipDirs, onDirectory |-> "record",
                     onFile |-> "record"])
    /\ stack' = <<Frame(harness.dir, harness.rel)>>
    /\ calls' = <<>>
    /\ phase' = "walk"
    /\ pc' = "walking"
    /\ UNCHANGED <<env, config, rule, loop, errors, out, exitCode, thrown, runs,
                   procs, finished, ended>>

HarnessWalkReturns ==
    /\ pc = "walking"
    /\ stack = <<>>
    /\ phase' = "none"
    /\ pc' = "walked"
    /\ UNCHANGED <<env, config, rule, loop, stack, opts, calls, errors, out, exitCode,
                   thrown, runs, procs, finished, ended>>

-----------------------------------------------------------------------------

Init ==
    /\ tree \in Trees
    /\ mode \in {"cli", "import", "walk"}
    /\ cfgModule \in (IF mode = "cli" THEN {"absent", "throws", "ok"} ELSE {"absent"})
    /\ cfgValue \in (IF mode = "import" \/ cfgModule = "ok" THEN Configs ELSE {EmptyConfig})
    /\ harness \in (IF mode = "walk" THEN Harnesses ELSE {NoHarness})
    /\ config = EmptyConfig
    /\ pc = StartPc
    /\ rule = 0
    /\ phase = "none"
    /\ loop = <<>>
    /\ stack = <<>>
    /\ opts = NoOpts
    /\ calls = <<>>
    /\ errors = <<>>
    /\ out = <<>>
    /\ exitCode = NoExit
    /\ thrown = "none"
    /\ runs = 0
    /\ procs = 1
    /\ finished = {}
    /\ ended = <<>>

Walk ==
    \/ WalkReaddir
    \/ WalkReaddirFails
    \/ WalkSkipDir
    \/ WalkDirectory
    \/ WalkFile
    \/ WalkFileThrows
    \/ WalkOther
    \/ WalkReturn

Rules ==
    \/ StartTreeWalk
    \/ TreeWalkReturns
    \/ ExamplesNoPatterns
    \/ ExamplesReaddirThrows
    \/ ExamplesChecked
    \/ ScriptsReaddirThrows
    \/ ScriptsChecked
    \/ FixturesReaddir
    \/ FixturesNextPackage
    \/ FixturesSkipEntry
    \/ FixturesWalkReturns
    \/ FixturesLoopEnds

Next ==
    \/ Walk
    \/ Rules
    \/ LoadConfig
    \/ LoadConfigCatch
    \/ CallValidate
    \/ ValidateBegins
    \/ RuleReturns
    \/ PrintResults
    \/ DecideExit
    \/ DecideReturn
    \/ MainReturns
    \/ TopLevelCatch
    \/ NewProcess
    \/ HarnessCalls
    \/ HarnessWalkReturns

Spec == Init /\ [][Next]_vars

\* The steps of the program itself: the continuation of every await of a walk, of a
\* rule check and of validate runs once its promise has settled.  Whether the
\* caller calls validate again, or the command is run again, is up to them.
Steps ==
    \/ Walk
    \/ Rules
    \/ LoadConfig
    \/ LoadConfigCatch
    \/ ValidateBegins
    \/ RuleReturns
    \/ PrintResults
    \/ DecideExit
    \/ DecideReturn
    \/ MainReturns
    \/ TopLevelCatch
    \/ HarnessCalls
    \/ HarnessWalkReturns

FairSpec == Spec /\ WF_vars(Steps)

TypeOK ==
    /\ pc \in {"main", "idle", "harness", "validate", "rule", "print", "decide",
               "returned", "rejected", "catch", "exited", "walking", "walked"}
    /\ rule \in 0..NumRules
    /\ exitCode \in {NoExit, 0, 1, 2}

-----------------------------------------------------------------------------
\* Properties

AnyOfSeverity(list, sev) == \E i \in DOMAIN list : list[i].severity = sev
CliExited == mode = "cli" /\ pc = "exited"
AllRules == 1..NumRules
RuleThrew == thrown \in {"stat", "readdir"}

\* violation v is on a line printResults wrote
IsPrinted(v) ==
    \E j \in DOMAIN out :
        /\ out[j].kind = "group"
        /\ \E k \in DOMAIN out[j].violations : out[j].violations[k] = v

AllPrinted == \A i \in DOMAIN errors : IsPrinted(errors[i])

\* C1, as stated: a CLI run ends with exit code 1 if and only if the errors list
\* holds at least one violation of severity 'error'.
C1_ExitOneIffError ==
    CliExited => (exitCode = 1 <=> AnyOfSeverity(errors, "error"))

\* C1, amended: a CLI run in which no rule check throws ends with exit code 1 if
\* and only if the errors list holds a violation of severity 'error', and with 0
\* otherwise (warnings alone, or no violation, do not fail it); a run in which a
\* rule check throws ends with exit code 2 whatever the list holds.
C1_ExitOneIffErrorUnlessThrown ==
    CliExited =>
        IF thrown = "none"
        THEN exitCode = (IF AnyOfSeverity(errors, "error") THEN 1 ELSE 0)
        ELSE exitCode = 2

\* a finished run whose violations are all warnings
C1_WarningsOnlyRun ==
    /\ CliExited
    /\ thrown = "none"
    /\ errors # <<>>
    /\ ~AnyOfSeverity(errors, "error")
    /\ exitCode = 0

\* C2, as stated: in every run all eight rule checks run to completion and every
\* violation found is in the list and printed before the exit status is decided.
C2_NeverFailsFast ==
    pc = "exited" => (finished = AllRules /\ AllPrinted)

\* C2, amended: in every run in which no rule check throws, all eight rule checks
\* have returned and every violation of the list is printed before the exit status
\* is decided, also when the first rule check already found an error.
C2_NeverFailsFastUnlessThrown ==
    (pc = "decide" \/ (pc \in {"exited", "returned"} /\ thrown = "none")) =>
        (finished = AllRules /\ AllPrinted)

\* the first rule check found an error and the last one a violation of its own
C2_FirstAndLastRuleReport ==
    /\ pc = "exited"
    /\ exitCode = 1
    /\ finished = AllRules
    /\ Len(errors) >= 2
    /\ errors[1].message.text = "Nested package.json detected."
    /\ errors[Len(errors)].type = LARGE_FILE
    /\ AllPrinted

\* C3: when the configuration module exists but throws while it is loaded, the
\* process exits with code 2.
C3_ConfigThrowExitsTwo ==
    (CliExited /\ cfgModule = "throws") => exitCode = 2

\* C4: with no configuration module, startup does not fail: validate is called,
\* once, with the empty config, and the exit status is 1 or 0 as the list holds an
\* error or not; status 2 arises only when a rule check threw.
C4_AbsentConfigRunsDefaults ==
    (mode = "cli" /\ cfgModule = "absent") =>
        /\ pc \in {"validate", "rule", "print", "decide", "returned"} =>
              (config = EmptyConfig /\ thrown = "none")
        /\ pc = "catch" => (RuleThrew /\ runs = 1)
        /\ pc = "exited" =>
              /\ runs = 1
              /\ config = EmptyConfig
              /\ IF exitCode = 2 THEN RuleThrew
                 ELSE exitCode = (IF AnyOfSeverity(errors, "error") THEN 1 ELSE 0)

\* a run without configuration module that checked every rule and passed
C4_AbsentConfigRunPassed ==
    /\ CliExited
    /\ cfgModule = "absent"
    /\ finished = AllRules
    /\ exitCode = 0

\* C5: an exception thrown by a rule check or its walk during a CLI run goes to
\* the catch of the main block and nowhere else; it is reported once, nothing of
\* printResults is written, and the process exits with code 2.
C5_ThrowExitsTwo ==
    (mode = "cli" /\ thrown # "none") =>
        /\ pc \in {"catch", "exited"}
        /\ pc = "exited" =>
              /\ exitCode = 2
              /\ Cardinality({j \in DOMAIN out : out[j].kind = "script-failed"}) = 1
              /\ \A j \in DOMAIN out : out[j].kind \notin {"passed", "failed", "group"}

\* stat of a fixture file failed and the run ended with status 2
C5_StatFailureExitTwo ==
    /\ CliExited
    /\ thrown = "stat"
    /\ exitCode = 2

\* C6, as stated: a second validate call on the unmodified tree leaves the same
\* violation list as the first.
C6_SecondCallSameList ==
    \A i, j \in DOMAIN ended :
        ended[i].proc = ended[j].proc => ended[i].list = ended[j].list

\* C6, amended: two runs of the validator on the unmodified tree, each in a fresh
\* process, leave identical violation lists; a further validate call in the same
\* process appends the same violations again to the list the call before left.
C6_FreshProcessSameList ==
    \A i, j \in DOMAIN ended :
        /\ (ended[i].run = 1 /\ ended[j].run = 1) => ended[i].list = ended[j].list
        /\ (ended[i].proc = ended[j].proc /\ ended[j].run = ended[i].run + 1) =>
              \E f \in DOMAIN ended :
                  /\ ended[f].proc = ended[i].proc
                  /\ ended[f].run = 1
                  /\ ended[j].list = ended[i].list \o ended[f].list

\* two processes ran on the tree and each left a non-empty list
C6_TwoProcessesReported ==
    \E i, j \in DOMAIN ended :
        /\ ended[i].proc # ended[j].proc
        /\ ended[i].run = 1
        /\ ended[j].run = 1
        /\ ended[i].list # <<>>

\* the walk that `calls` belongs to has returned
WalkDone == pc = "walked" \/ (pc = "rule" /\ phase = "walk" /\ stack = <<>>)

StartLen == Len(opts.dir)
IsUnder(p) == Len(p) > StartLen /\ SubSeq(p, 1, StartLen) = opts.dir
\* the directory at the first k segments of p is one the skip set names
IsSkippedAt(p, k) ==
    p[k] \in opts.skipDirs /\ NodeAt(tree, SubSeq(p, 1, k)).kind = "dir"
\* every directory from the start down to the parent of p can be listed
ParentsListable(p) ==
    \A k \in StartLen..(Len(p) - 1) : CanReaddir(tree, SubSeq(p, 1, k))
IsProperPrefix(q, p) == Len(q) < Len(p) /\ SubSeq(p, 1, Len(q)) = q

\* C7: no callback is invoked for a directory whose name is in skipDirs, at any
\* depth under the start directory, nor for any entry beneath such a directory.
C7_SkipDirsNeverVisited ==
    \A i \in DOMAIN calls :
        \A k \in (StartLen + 1)..Len(calls[i].fullPath) :
            ~IsSkippedAt(calls[i].fullPath, k)

\* a finished walk with callbacks made, over a tree that holds a non-empty directory
\* named in skipDirs two or more levels below the start
C7_SkippedAtDepth ==
    /\ pc = "walked"
    /\ calls # <<>>
    /\ \E n \in tree :
          /\ IsUnder(n.path)
          /\ \E k \in (StartLen + 2)..(Len(n.path) - 1) : IsSkippedAt(n.path, k)

\* C8: the onDirectory call for a directory comes before every onDirectory or
\* onFile call for an entry of its subtree, and each such entry's call is preceded
\* by the onDirectory calls of all directories between it and the start.
C8_ParentBeforeChildren ==
    opts.onDirectory # "none" =>
        /\ \A i, j \in DOMAIN calls :
              (calls[i].kind = "dir" /\ IsProperPrefix(calls[i].fullPath, calls[j].fullPath))
                  => i < j
        /\ \A j \in DOMAIN calls :
              \A k \in (StartLen + 1)..(Len(calls[j].fullPath) - 1) :
                  \E i \in 1..(j - 1) :
                      /\ calls[i].kind = "dir"
                      /\ calls[i].fullPath = SubSeq(calls[j].fullPath, 1, k)

\* a finished walk that called onFile for a file two directories below the start
C8_FileBelowTwoDirectories ==
    /\ pc = "walked"
    /\ \E j \in DOMAIN calls :
          /\ calls[j].kind = "file"
          /\ Len(calls[j].fullPath) >= StartLen + 3

\* C9: a walk whose start directory does not exist or cannot be listed returns
\* without a callback invocation and without raising: no rejection of readdir
\* inside walkDirectory leaves it.
C9_UnlistableStartIsEmptyWalk ==
    /\ ((phase = "walk" \/ pc = "walked") /\ ~CanReaddir(tree, opts.dir)) =>
          (calls = <<>> /\ Len(stack) <= 1 /\ thrown = "none")
    /\ mode = "walk" => (thrown = "none" /\ pc \in {"harness", "walking", "walked"})
    /\ thrown = "readdir" => ~CanReaddir(tree, PackagesDir)

\* a direct walk of a start directory that cannot be listed has returned
C9_UnlistableStartReturned ==
    /\ pc = "walked"
    /\ ~CanReaddir(tree, harness.dir)

\* the files / directories of the tree that the claim says are visited
ClaimedFiles ==
    {n \in tree : /\ n.kind = "file"
                  /\ IsUnder(n.path)
                  /\ \A k \in (StartLen + 1)..(Len(n.path) - 1) : ~IsSkippedAt(n.path, k)}
ClaimedDirs ==
    {n \in tree : /\ n.kind = "dir"
                  /\ IsUnder(n.path)
                  /\ \A k \in (StartLen + 1)..Len(n.path) : ~IsSkippedAt(n.path, k)}

\* the call walkDirectory owes node n
CallFor(n) ==
    Call(n.kind, n.path[Len(n.path)], n.path,
         opts.rel \o SubSeq(n.path, StartLen + 1, Len(n.path)))
CalledOnce(n) == Cardinality({i \in DOMAIN calls : calls[i] = CallFor(n)}) = 1

\* C10, as stated: when a walk returns, onFile was invoked exactly once, with the
\* path relative to the prefix, for every regular file under the start that has no
\* ancestor named in skipDirs, and onDirectory exactly once for every directory
\* that is not skipped (the start directory itself being one that can be listed).
C10_VisitsEveryEntry ==
    (WalkDone /\ CanReaddir(tree, opts.dir)) =>
        /\ opts.onFile # "none" => \A n \in ClaimedFiles : CalledOnce(n)
        /\ opts.onDirectory # "none" => \A n \in ClaimedDirs : CalledOnce(n)

\* C10, amended: when a walk returns, onFile was invoked exactly once, with the
\* path relative to the prefix, for every regular file under the start that has no
\* ancestor named in skipDirs and whose containing directories, from the start
\* directory down, can all be listed; onDirectory exactly once for every such
\* directory that is not skipped; and no other callback was invoked.
C10_VisitsEveryListableEntry ==
    WalkDone =>
        LET files == IF opts.onFile # "none"
                     THEN {n \in ClaimedFiles : ParentsListable(n.path)} ELSE {}
            dirs == IF opts.onDirectory # "none"
                    THEN {n \in ClaimedDirs : ParentsListable(n.path)} ELSE {}
        IN  /\ \A n \in files \cup dirs : CalledOnce(n)
            /\ Len(calls) = Cardinality(files \cup dirs)

\* a finished walk with a skip set, which visited a file three levels down and
\* left out an entry of the tree
C10_DeepWalkWithSkips ==
    /\ pc = "walked"
    /\ opts.skipDirs # {}
    /\ \E j \in DOMAIN calls :
          calls[j].kind = "file" /\ Len(calls[j].fullPath) >= StartLen + 3
    /\ \E n \in tree : IsUnder(n.path) /\ n \notin ClaimedFiles \cup ClaimedDirs

-----------------------------------------------------------------------------
\* Properties of the rule checks

\* rule check r of the first validate call of this process returns: the list holds
\* what the rule checks up to r have appended
RuleDone(r) == runs = 1 /\ pc = "rule" /\ rule = r /\ phase = "done"

NameOf(p) == p[Len(p)]
CountOfText(list, txt, p) ==
    Cardinality({i \in DOMAIN list : list[i].message.text = txt /\ list[i].path = p})
CountOfType(list, ty, p) ==
    Cardinality({i \in DOMAIN list : list[i].type = ty /\ list[i].path = p})

\* the walk from REPO_ROOT with skip set `skip` gets to the entry at p: no directory
\* above it is named in the set and every one of them can be listed
ReachedFromRoot(skip, p) ==
    /\ \A k \in 1..(Len(p) - 1) : p[k] \notin skip
    /\ \A k \in 0..(Len(p) - 1) : CanReaddir(tree, SubSeq(p, 1, k))
WalkedFiles(r) ==
    {n \in tree : n.kind = "file" /\ ReachedFromRoot(RuleOpts(r).skipDirs, n.path)}

NestedText == "Nested package.json detected."
\* package.json, packages/<name>/package.json, or below packages/<name>/test/fixtures/
ValidManifestPath(p) ==
    \/ p = <<PACKAGE_JSON>>
    \/ (Len(p) = 3 /\ p[1] = PACKAGES /\ NameOf(p) = PACKAGE_JSON)
    \/ (Len(p) >= 5 /\ p[1] = PACKAGES /\ p[3] = TEST /\ p[4] = FIXTURES)

\* C11: once the nested-manifest rule has returned, every walked file named exactly
\* package.json has no violation of that rule if its path is package.json,
\* packages/<name>/package.json or lies under packages/<name>/test/fixtures/, and
\* exactly one otherwise, of type forbidden-directory and severity error; the rule
\* emits nothing for any other path.
C11_NestedManifestRule ==
    RuleDone(1) =>
        /\ \A n \in WalkedFiles(1) :
              NameOf(n.path) = PACKAGE_JSON =>
                  CountOfText(errors, NestedText, n.path) =
                      (IF ValidManifestPath(n.path) THEN 0 ELSE 1)
        /\ \A i \in DOMAIN errors :
              errors[i].message.text = NestedText =>
                  /\ errors[i].type = FORBIDDEN_DIRECTORY
                  /\ errors[i].severity = "error"
                  /\ \E n \in WalkedFiles(1) :
                        n.path = errors[i].path /\ NameOf(n.path) = PACKAGE_JSON

\* the rule returned on a tree with a manifest below a fixtures directory, which it
\* let pass, and one in packages/foo/src, which it flagged
C11_FixtureManifestPassesNestedFlagged ==
    /\ RuleDone(1)
    /\ \E n \in WalkedFiles(1) :
          /\ NameOf(n.path) = PACKAGE_JSON
          /\ Len(n.path) >= 5
          /\ ValidManifestPath(n.path)
          /\ CountOfText(errors, NestedText, n.path) = 0
    /\ CountOfText(errors, NestedText, <<PACKAGES, FOO, SRC, PACKAGE_JSON>>) = 1

SourceText == "TypeScript file in wrong location."
IsSourceName(nm) == Len(nm) >= 2 /\ nm[Len(nm)] = "ts"
InRootAllowList(cfg, p) ==
    p \in BUILT_IN_ROOT_TS_FILES \/ (cfg.allowedRootTsFiles # <<>> /\ p \in cfg.allowedRootTsFiles[1])
UnderPackageSourceDir(p) ==
    Len(p) >= 4 /\ p[1] = PACKAGES /\ p[3] \in {SRC, TEST, EXAMPLES, GENERATED, SCRIPTS}
MatchesCallerPattern(cfg, p) ==
    /\ cfg.allowedPackageTsPaths # <<>>
    /\ \E i \in DOMAIN cfg.allowedPackageTsPaths[1] : p \in cfg.allowedPackageTsPaths[1][i]
SourceLocationAllowed(cfg, p) ==
    \/ InRootAllowList(cfg, p)
    \/ PACKAGE_CONFIG_PATTERN(p)
    \/ UnderPackageSourceDir(p)
    \/ MatchesCallerPattern(cfg, p)

\* C12: once the source-location rule has returned, every walked file whose name
\* ends in .ts has exactly one violation of that rule (a structural-violation of
\* severity error) if it is neither in the root-level allow-list (built-in names
\* plus config.allowedRootTsFiles), nor a package-level configuration file, nor
\* under packages/<name>/{src,test,examples,generated,scripts}/, nor matched by a
\* pattern of config.allowedPackageTsPaths, and none otherwise; the rule emits
\* nothing for any other file.
C12_SourceLocationRule ==
    RuleDone(2) =>
        /\ \A n \in WalkedFiles(2) :
              IsSourceName(NameOf(n.path)) =>
                  CountOfText(errors, SourceText, n.path) =
                      (IF SourceLocationAllowed(config, n.path) THEN 0 ELSE 1)
        /\ \A i \in DOMAIN errors :
              errors[i].message.text = SourceText =>
                  /\ errors[i].type = STRUCTURAL_VIOLATION
                  /\ errors[i].severity = "error"
                  /\ \E n \in WalkedFiles(2) :
                        n.path = errors[i].path /\ IsSourceName(NameOf(n.path))

\* the rule returned under a configuration with extra patterns: it let pass a file
\* the caller's pattern matches, a package-level configuration file and a file of
\* the caller's root list, and flagged a source file at the repository root
C12_EveryAllowanceUsedOneFlagged ==
    /\ RuleDone(2)
    /\ \E n \in WalkedFiles(2) :
          /\ MatchesCallerPattern(config, n.path)
          /\ ~UnderPackageSourceDir(n.path)
          /\ CountOfText(errors, SourceText, n.path) = 0
    /\ \E n \in WalkedFiles(2) :
          /\ PACKAGE_CONFIG_PATTERN(n.path)
          /\ CountOfText(errors, SourceText, n.path) = 0
    /\ \E n \in WalkedFiles(2) :
          /\ n.path \notin BUILT_IN_ROOT_TS_FILES
          /\ InRootAllowList(config, n.path)
          /\ CountOfText(errors, SourceText, n.path) = 0
    /\ \E n \in WalkedFiles(2) :
          /\ Len(n.path) = 1
          /\ CountOfText(errors, SourceText, n.path) = 1

SpecText == "Use .test.ts instead of .spec.ts for consistency."
EndsInSpecTs(nm) == Len(nm) >= 3 /\ nm[Len(nm) - 1] = "spec" /\ nm[Len(nm)] = "ts"
\* the first validate call of this process went through all eight rule checks
FullRun == runs = 1 /\ finished = AllRules

NamingTexts ==
    { SpecText, "Integration tests must be in test/integration/ directory.",
      "System tests must be in test/system/ directory.",
      "Unit tests in integration/system directories must use the suffix." }
\* the violations of the naming rule in the list for the file at p
NamingCount(p) ==
    Cardinality({i \in DOMAIN errors :
                    errors[i].message.text \in NamingTexts /\ errors[i].path = p})
EndsInKindTestTs(nm, kind) ==
    /\ Len(nm) >= 4
    /\ nm[Len(nm) - 2] = kind[1]
    /\ nm[Len(nm) - 1] = "test"
    /\ nm[Len(nm)] = "ts"
EndsInTestTs(nm) == Len(nm) >= 3 /\ nm[Len(nm) - 1] = "test" /\ nm[Len(nm)] = "ts"
\* the file at p has a directory `test` with the entry `kind` among the directories above it
LivesUnderTestDir(p, kind) ==
    \E i \in 1..(Len(p) - 2) : p[i] = TEST /\ p[i + 1] = kind

\* C14: for k in {integration, system}, once the naming rule has returned, a walked
\* file whose name ends in .k.test.ts has no violation of the naming rule if it
\* lives under a test/k/ path segment and exactly one if it does not.
C14_SuffixedTestInItsDirectory ==
    RuleDone(3) =>
        \A n \in WalkedFiles(3) : \A kind \in {INTEGRATION, SYSTEM} :
            EndsInKindTestTs(NameOf(n.path), kind) =>
                NamingCount(n.path) = (IF LivesUnderTestDir(n.path, kind) THEN 0 ELSE 1)

\* C15: once the naming rule has returned, a walked file whose name ends in
\* .test.ts but neither in .integration.test.ts nor in .system.test.ts has exactly
\* one violation of the naming rule when its path lies under test/integration/ or
\* test/system/, and none elsewhere.
C15_PlainTestOutsideKindDirectories ==
    RuleDone(3) =>
        \A n \in WalkedFiles(3) :
            ( /\ EndsInTestTs(NameOf(n.path))
              /\ ~EndsInKindTestTs(NameOf(n.path), INTEGRATION)
              /\ ~EndsInKindTestTs(NameOf(n.path), SYSTEM) ) =>
                NamingCount(n.path) =
                    (IF \/ LivesUnderTestDir(n.path, INTEGRATION)
                        \/ LivesUnderTestDir(n.path, SYSTEM)
                     THEN 1 ELSE 0)

\* File names of up to MaxNameParts components and the directories they are tried in
NamingParts == {"bar", "spec", "test", "ts", "integration", "system"}
NamingNames == UNION {[1..k -> NamingParts] : k \in 1..MaxNameParts}
NamingDirs ==
    { <<>>, <<TEST, INTEGRATION>>, <<PACKAGES, FOO, TEST>>,
      <<PACKAGES, FOO, TEST, INTEGRATION>>, <<PACKAGES, FOO, TEST, SYSTEM>>,
      <<PACKAGES, FOO, TEST, INTEGRATION, TEST, SYSTEM>> }

NamingSomeTwo ==
    \E nm \in NamingNames, d \in NamingDirs :
        Len(TestFileNamingOnFile(nm, Append(d, nm))) >= 2

\* C16, as stated: some file name and path makes the callback of
\* validateTestFileNaming append two or more violations for that one file, be it
\* a file of the tree or any name of up to MaxNameParts components in a directory
\* of NamingDirs.
C16_SomeFileTriggersTwoChecks ==
    \/ NamingSomeTwo
    \/ \E n \in tree : Len(TestFileNamingOnFile(NameOf(n.path), n.path)) >= 2

NamingAtMostOne ==
    \A nm \in NamingNames, d \in NamingDirs :
        Len(TestFileNamingOnFile(nm, Append(d, nm))) <= 1

\* C16, amended: the four checks of the naming rule are evaluated one after the
\* other for every file, none being skipped because another fired, but their
\* conditions on the name exclude each other, so the callback appends at most one
\* violation for a file and no file has more than one naming violation in a walk;
\* several files of one walk can each be reported by a different check.
C16_AtMostOneCheckPerFile ==
    /\ NamingAtMostOne
    /\ RuleDone(3) => \A n \in tree : NamingCount(n.path) <= 1

\* the naming rule returned from a walk in which three different checks fired, each
\* for a different file
C16_ThreeChecksThreeFiles ==
    /\ RuleDone(3)
    /\ \E a, b, c \in WalkedFiles(3) :
          /\ CountOfText(errors, SpecText, a.path) = 1
          /\ CountOfText(errors, "Integration tests must be in test/integration/ directory.", b.path) = 1
          /\ CountOfText(errors, "System tests must be in test/system/ directory.", c.path) = 1
          /\ NamingCount(a.path) = 1
          /\ NamingCount(b.path) = 1
          /\ NamingCount(c.path) = 1

ExamplesText == "Package matches a restricted pattern and must not have an /examples directory."
ScriptsText == "Only packages in allowedScriptsPackages may have /scripts directories."
\* the names of the entries of packages/
PackageEntries == {n.path[2] : n \in {m \in tree : Len(m.path) = 2 /\ m.path[1] = PACKAGES}}
IsDirectoryAt(p) == Exists(tree, p) /\ NodeAt(tree, p).kind = "dir"
PatternsOf(cfg) == IF cfg.noExamplesPatterns = <<>> THEN <<>> ELSE cfg.noExamplesPatterns[1]
MatchesSomePattern(cfg, nm) == \E i \in DOMAIN PatternsOf(cfg) : nm \in PatternsOf(cfg)[i]
AllowedScriptsOf(cfg) ==
    IF cfg.allowedScriptsPackages = <<>> THEN {DEV_TOOLS} ELSE cfg.allowedScriptsPackages[1]

\* C17: once the restricted-examples rule has returned, it has appended nothing
\* when no pattern is configured; otherwise exactly one forbidden-directory error
\* for each immediate subdirectory of packages/ whose name matches a pattern and
\* that contains an examples subdirectory, and nothing for any other package.
C17_ExamplesOnlyForSubdirectory ==
    RuleDone(4) =>
        \A nm \in PackageEntries :
            CountOfText(errors, ExamplesText, <<PACKAGES, nm, EXAMPLES, N("")>>) =
                (IF /\ PatternsOf(config) # <<>>
                    /\ IsDirectoryAt(<<PACKAGES, nm>>)
                    /\ MatchesSomePattern(config, nm)
                    /\ IsDirectoryAt(<<PACKAGES, nm, EXAMPLES>>)
                 THEN 1 ELSE 0)

\* C18: once the restricted-scripts rule has returned, it has appended exactly one
\* forbidden-directory error for every package directory that is not in
\* allowedScriptsPackages and has a scripts subdirectory, none for a package in the
\* set, and none for a package without a scripts subdirectory.
C18_ScriptsOnlyForSubdirectory ==
    RuleDone(5) =>
        \A nm \in PackageEntries :
            CountOfText(errors, ScriptsText, <<PACKAGES, nm, SCRIPTS, N("")>>) =
                (IF /\ IsDirectoryAt(<<PACKAGES, nm>>)
                    /\ nm \notin AllowedScriptsOf(config)
                    /\ IsDirectoryAt(<<PACKAGES, nm, SCRIPTS>>)
                 THEN 1 ELSE 0)

ShellText == "Shell scripts are forbidden."
HasShellExtension(nm) ==
    Len(nm) >= 2 /\ ToLowerCase(nm[Len(nm)]) \in {"sh", "ps1", "bat", "cmd"}
\* the regular files outside node_modules, dist, .git, .husky and .worktrees that a
\* walk from the repository root gets to
FilesOutsideSkipped ==
    {n \in tree : /\ n.kind = "file"
                  /\ ReachedFromRoot({NODE_MODULES, DIST, GIT, HUSKY, WORKTREES_DIR}, n.path)}

\* C19: once the shell-script rule has returned, every walked file outside
\* node_modules, dist, .git, .husky and .worktrees whose extension is, in any
\* letter case, .sh, .ps1, .bat or .cmd has exactly one violation of the rule, of
\* type forbidden-directory and severity error; a file with any other extension
\* has none, and the rule reports nothing else.
C19_ShellScriptRule ==
    RuleDone(6) =>
        /\ \A n \in FilesOutsideSkipped :
              CountOfText(errors, ShellText, n.path) =
                  (IF HasShellExtension(NameOf(n.path)) THEN 1 ELSE 0)
        /\ \A i \in DOMAIN errors :
              errors[i].message.text = ShellText =>
                  /\ errors[i].type = FORBIDDEN_DIRECTORY
                  /\ errors[i].severity = "error"
                  /\ \E n \in FilesOutsideSkipped : n.path = errors[i].path

\* the rule returned on a tree with a script whose extension is in capitals, which
\* it reported, and a script under .husky, which it did not
C19_CapitalExtensionFlaggedHuskySkipped ==
    /\ RuleDone(6)
    /\ \E n \in FilesOutsideSkipped :
          /\ NameOf(n.path)[Len(NameOf(n.path))] = "SH"
          /\ CountOfText(errors, ShellText, n.path) = 1
    /\ \E n \in tree :
          /\ n.kind = "file"
          /\ n.path[1] = HUSKY
          /\ HasShellExtension(NameOf(n.path))
          /\ CountOfText(errors, ShellText, n.path) = 0

StagingText == "Staging directories should not be committed."
StagingDirs == {n \in tree : n.kind = "dir" /\ NameOf(n.path) = STAGING}
\* p lies, at any depth, inside the test/fixtures directory of a package
InsidePackageFixtures(p) ==
    /\ Len(p) >= 5
    /\ p[1] = PACKAGES
    /\ p[3] = TEST
    /\ p[4] = FIXTURES
    /\ IsDirectoryAt(<<PACKAGES, p[2]>>)
\* the directories from that fixtures directory down to the parent of p can be listed
ListableBelowFixtures(p) ==
    \A k \in 4..(Len(p) - 1) : CanReaddir(tree, SubSeq(p, 1, k))

\* C20, as stated: once the staging rule has returned, every directory named
\* exactly staging at any depth inside a package's test/fixtures directory has one
\* forbidden-directory error, and a directory named staging anywhere else has none.
C20_EveryStagingInFixtures ==
    RuleDone(7) =>
        \A n \in StagingDirs :
            CountOfText(errors, StagingText, n.path) =
                (IF InsidePackageFixtures(n.path) THEN 1 ELSE 0)

\* C20, amended: once the staging rule has returned, every directory named exactly
\* staging inside a package's test/fixtures directory, at any depth, whose
\* containing directories from the fixtures directory down can all be listed has
\* exactly one forbidden-directory error of severity error; a directory named
\* staging below an unlistable directory, or outside every
\* packages/<name>/test/fixtures, has none; and the rule reports nothing else.
C20_EveryListableStagingInFixtures ==
    RuleDone(7) =>
        /\ \A n \in StagingDirs :
              CountOfText(errors, StagingText, n.path) =
                  (IF InsidePackageFixtures(n.path) /\ ListableBelowFixtures(n.path)
                   THEN 1 ELSE 0)
        /\ \A i \in DOMAIN errors :
              errors[i].message.text = StagingText =>
                  /\ errors[i].type = FORBIDDEN_DIRECTORY
                  /\ errors[i].severity = "error"
                  /\ \E n \in StagingDirs : n.path = errors[i].path

\* the rule returned on a tree with staging directories one and two levels inside
\* a fixtures directory, both reported, and one at the repository root, not reported
C20_StagingAtTwoDepthsAndOutside ==
    /\ RuleDone(7)
    /\ \E a, b, c \in StagingDirs :
          /\ InsidePackageFixtures(a.path)
          /\ Len(a.path) = 5
          /\ CountOfText(errors, StagingText, a.path) = 1
          /\ InsidePackageFixtures(b.path)
          /\ Len(b.path) > 5
          /\ CountOfText(errors, StagingText, b.path) = 1
          /\ ~InsidePackageFixtures(c.path)
          /\ CountOfText(errors, StagingText, c.path) = 0

\* the regular files the fixture-size walk gets to: inside the test/fixtures of a
\* package directory, below directories that can all be listed
FixtureFiles ==
    {n \in tree : /\ n.kind = "file"
                  /\ InsidePackageFixtures(n.path)
                  /\ ListableBelowFixtures(n.path)}
\* the extension is, in any letter case, one of the compressed formats; a name
\* ending in .tar.gz has the extension .gz
HasCompressedExtension(nm) ==
    Len(nm) >= 2 /\ ToLowerCase(nm[Len(nm)]) \in {"zip", "tar", "gz", "tgz"}
LimitBytes == MAX_SIZE_KB * BytesPerKB

C22_UnlistableIsNothingToCheck ==
    /\ thrown # "readdir"
    /\ (~CanReaddir(tree, PackagesDir) /\ runs = 1 /\ pc \in {"exited", "returned"})
          => finished = AllRules

-----------------------------------------------------------------------------
\* The rule checks as functions of the tree and the config: what one call appends
\* to the list, and whether it throws instead of returning.

Outcome(l, t) == [list |-> l, threw |-> t]
Nothing == Outcome(<<>>, FALSE)

\* an iteration of a loop, then the rest of it: a throw ends the loop
Then(first, rest) ==
    IF first.threw THEN first ELSE Outcome(first.list \o rest.list, rest.threw)
\* onDirectory for an entry, then the walk below it
Below(pushed, sub) == Outcome(pushed \o sub.list, sub.threw)

RECURSIVE WalkList(_, _, _, _, _)
RECURSIVE WalkEntries(_, _, _, _, _, _)
\* the body of the for loop of walkDirectory for entry e of directory d
WalkEntry(t, cfg, o, fullPath, relPath, e) ==
    CASE e.kind = "dir" /\ e.name \in o.skipDirs -> Nothing
      [] e.kind = "dir" /\ e.name \notin o.skipDirs ->
            Below(OnDirectory(o.onDirectory, e.name, relPath),
                  WalkList(t, cfg, o, fullPath, relPath))
      [] e.kind = "file" ->
            IF OnFileThrows(t, o.onFile, fullPath) THEN Outcome(<<>>, TRUE)
            ELSE Outcome(OnFile(t, cfg, o.onFile, e.name, fullPath, relPath), FALSE)
      [] OTHER -> Nothing

\* the for loop of walkDirectory over the entries es of directory d
WalkEntries(t, cfg, o, d, rel, es) ==
    IF es = <<>> THEN Nothing
    ELSE Then(WalkEntry(t, cfg, o, join(d, Head(es).name), join(rel, Head(es).name), Head(es)),
              WalkEntries(t, cfg, o, d, rel, Tail(es)))

\* walkDirectory(d, rel, o)
WalkList(t, cfg, o, d, rel) ==
    IF CanReaddir(t, d) THEN WalkEntries(t, cfg, o, d, rel, readdir(t, d)) ELSE Nothing

\* the for loop of forEachPackageFixturesDir over the entries es of packages/
RECURSIVE FixturesList(_, _, _, _)
FixturesList(t, cfg, r, es) ==
    IF es = <<>> THEN Nothing
    ELSE Then(IF Head(es).kind = "dir"
              THEN WalkList(t, cfg, RuleOpts(r), FixturesDirOf(Head(es).name),
                            FixturesDirOf(Head(es).name))
              ELSE Nothing,
              FixturesList(t, cfg, r, Tail(es)))

\* one call of rule check r
RuleList(t, cfg, r) ==
    CASE r \in TreeWalkRules -> WalkList(t, cfg, RuleOpts(r), REPO_ROOT, <<>>)
      [] r = 4 -> IF Len(OrElse(cfg.noExamplesPatterns, <<>>)) = 0 THEN Nothing
                  ELSE IF CanReaddir(t, PackagesDir) THEN Outcome(ExamplesErrors(t, cfg), FALSE)
                  ELSE Outcome(<<>>, TRUE)
      [] r = 5 -> IF CanReaddir(t, PackagesDir) THEN Outcome(ScriptsErrors(t, cfg), FALSE)
                  ELSE Outcome(<<>>, TRUE)
      [] r \in FixturesRules ->
                  IF CanReaddir(t, PackagesDir)
                  THEN FixturesList(t, cfg, r, readdir(t, PackagesDir))
                  ELSE Outcome(<<>>, TRUE)

\* what each rule check does by itself on tree t with config cfg
RuleLists(t, cfg) == [r \in 1..NumRules |-> RuleList(t, cfg, r)]

\* the awaits of validate, from an empty list, were the rule checks called in the
\* order `order`: the first that throws ends the run
RECURSIVE RunList(_, _)
RunList(lists, order) ==
    IF order = <<>> THEN Nothing
    ELSE Then(lists[Head(order)], RunList(lists, Tail(order)))

\* the order of validate
CodeOrder == [i \in 1..NumRules |-> i]

Reversed(order) == [i \in 1..Len(order) |-> order[Len(order) + 1 - i]]
Rotated(order, k) == [i \in 1..Len(order) |-> order[((i + k - 1) % Len(order)) + 1]]
Swapped(order, k) ==
    [i \in 1..Len(order) |-> IF i = k THEN order[k + 1] ELSE IF i = k + 1 THEN order[k] ELSE order[i]]
\* the permutations compared: every rotation and its reverse, every exchange of two
\* neighbours
Orders ==
    {Rotated(CodeOrder, k) : k \in 0..(NumRules - 1)}
    \cup {Reversed(Rotated(CodeOrder, k)) : k \in 0..(NumRules - 1)}
    \cup {Swapped(CodeOrder, k) : k \in 1..(NumRules - 1)}

CountIn(list, v) == Cardinality({i \in DOMAIN list : list[i] = v})
\* the same records with the same multiplicities
SameCollection(a, b) ==
    /\ Len(a) = Len(b)
    /\ \A i \in DOMAIN a : CountIn(a, a[i]) = CountIn(b, a[i])

\* the first call of validate of a process has run its rule checks: the last one
\* returned, or one threw
RunOver == runs = 1 /\ pc \in {"print", "catch", "rejected"}

\* C23, as stated: for a fixed tree and config, the rule checks run in any
\* permutation from an empty list leave the same collection of violations as the
\* run in the order of the code.
C23_AnyOrderSameCollection ==
    RunOver =>
        \A lists \in {RuleLists(tree, config)} :
            \A o \in Orders : SameCollection(RunList(lists, o).list, errors)

\* C23, amended: what a rule check appends depends on the tree and the config only,
\* not on the list it finds: the list a run leaves is the concatenation, in the
\* order of the calls, of what each rule check appends by itself.  When no rule
\* check throws, every permutation leaves the same collection, in a different
\* order; when one throws, it throws in every permutation and the list holds what
\* the rule checks called before it appended.
C23_SameCollectionUnlessThrown ==
    RunOver =>
        \A lists \in {RuleLists(tree, config)} :
            \A code \in {RunList(lists, CodeOrder)} :
                /\ errors = code.list
                /\ code.threw <=> RuleThrew
                /\ \A o \in Orders :
                      \A other \in {RunList(lists, o)} :
                          /\ other.threw <=> code.threw
                          /\ ~code.threw => SameCollection(other.list, errors)

\* a run without a throw whose list holds violations of three rule checks, and a
\* permutation that leaves them in another order
C23_SameRecordsOtherOrder ==
    /\ RunOver
    /\ pc = "print"
    /\ Cardinality({errors[i].message.text : i \in DOMAIN errors}) >= 3
    /\ \E lists \in {RuleLists(tree, config)} :
          \E o \in Orders :
              /\ RunList(lists, o).list # errors
              /\ SameCollection(RunList(lists, o).list, errors)

HasLine(k) == \E j \in DOMAIN out : out[j].kind = k

\* C24, as stated: a fresh run on a tree on which no rule check finds a violation
\* leaves the list empty, prints the success banner and exits with status 0.
C24_CleanTreeSucceeds ==
    (CliExited /\ errors = <<>>) => (HasLine("passed") /\ exitCode = 0)

\* C24, amended: a fresh run on a tree on which no rule check finds a violation and
\* none throws leaves the list empty, prints the success banner and exits with
\* status 0; when a rule check throws on such a tree the list is empty as well, but
\* no banner is printed and the status is 2; and the success banner is printed only
\* when the list is empty.
C24_CleanRunSucceedsUnlessThrown ==
    /\ (CliExited /\ errors = <<>>) =>
          IF thrown = "none"
          THEN HasLine("passed") /\ ~HasLine("failed") /\ exitCode = 0
          ELSE ~HasLine("passed") /\ HasLine("script-failed") /\ exitCode = 2
    /\ HasLine("passed") => errors = <<>>

\* a finished run over a tree with a package, its sources and its fixtures that
\* found nothing and printed the success banner
C24_CleanPackageTree ==
    /\ CliExited
    /\ finished = AllRules
    /\ errors = <<>>
    /\ HasLine("passed")
    /\ exitCode = 0
    /\ \E n \in FixtureFiles : n.size = LimitBytes

\* C25: no step of a walk, of a rule check, of reporting or of the main block
\* creates, deletes, renames or modifies a file or a directory: the tree, the
\* configuration module included, is after every step what it was before it.
C25_TreeNeverChanges ==
    [][tree' = tree /\ cfgModule' = cfgModule /\ cfgValue' = cfgValue]_vars

\* a run has walked a tree with large fixtures, reported them and exited, and the
\* command was run a second time on the tree
C25_RunsOverSameTree ==
    /\ mode = "cli"
    /\ procs = 2
    /\ Len(ended) >= 1
    /\ \E i \in DOMAIN ended[1].list : ended[1].list[i].type = LARGE_FILE
    /\ \E n \in FixtureFiles : n.size > LimitBytes

\* the rule check, by its place in the order of validate, that reports violation v
RuleOf(v) ==
    CASE v.message.text = NestedText -> 1
      [] v.message.text = SourceText -> 2
      [] v.message.text \in NamingTexts -> 3
      [] v.message.text = ExamplesText -> 4
      [] v.message.text = ScriptsText -> 5
      [] v.message.text = ShellText -> 6
      [] v.message.text = StagingText -> 7
      [] OTHER -> 8
\* the violations of an earlier rule check precede those of a later one
InRuleOrder(list) ==
    \A i \in 1..(Len(list) - 1) : RuleOf(list[i]) <= RuleOf(list[i + 1])
IsPrefixOf(a, b) == Len(a) <= Len(b) /\ SubSeq(b, 1, Len(a)) = a
\* a step that changes the list appends to it violations of the rule check that is
\* running, or is the start of a new process
OnlyRunningRuleAppends ==
    errors' # errors =>
        \/ /\ pc = "rule" /\ pc' = "rule" /\ rule' = rule
           /\ IsPrefixOf(errors, errors')
           /\ \A i \in (Len(errors) + 1)..Len(errors') : RuleOf(errors'[i]) = rule
        \/ pc = "exited" /\ pc' # "exited" /\ errors' = <<>>
\* one rule check at a time, in the order of validate
OneRuleAtATime ==
    /\ pc = "rule" <=> rule \in 1..NumRules
    /\ pc = "rule" => finished = 1..(rule - 1)
    /\ pc = "print" => finished = AllRules
    /\ pc \notin {"rule", "walking"} => stack = <<>> /\ loop = <<>>

\* the list is one a call of validate has completed, or the first call is building
ListOfCompletedCall ==
    runs = 1 \/ (thrown = "none" /\ pc \in {"print", "decide", "returned", "exited"})

\* C26: validate runs the eight checks one after another in the fixed order, at
\* most one at a time; only the running rule check changes the list, by appending
\* its own violations, and no entry is ever removed or changed within a process;
\* and in the list a call of validate ends with, all violations of an earlier rule
\* check precede all violations of a later one.
C26_SequentialAppendOnly ==
    /\ [](OneRuleAtATime /\ (ListOfCompletedCall => InRuleOrder(errors)))
    /\ [][OnlyRunningRuleAppends]_vars

\* the first call of validate is about to print a list with violations of three
\* rule checks, the last of them the fixture-size rule
C26_ThreeRulesInOrder ==
    /\ runs = 1
    /\ pc = "print"
    /\ Cardinality({RuleOf(errors[i]) : i \in DOMAIN errors}) >= 3
    /\ RuleOf(errors[1]) < RuleOf(errors[Len(errors)])
    /\ RuleOf(errors[Len(errors)]) = NumRules

\* C27: in every state, every violation of the list is of one of the three types and
\* of one of the two severities, and its severity is 'warning' if and only if its
\* type is large-file: every forbidden-directory and structural-violation record
\* has severity 'error'.
C27_WarningIffLargeFile ==
    \A i \in DOMAIN errors :
        /\ errors[i].type \in {FORBIDDEN_DIRECTORY, STRUCTURAL_VIOLATION, LARGE_FILE}
        /\ errors[i].severity \in {"error", "warning"}
        /\ errors[i].severity = "warning" <=> errors[i].type = LARGE_FILE

\* a list that holds a violation of each of the three types
C27_AllThreeTypesListed ==
    \E i, j, k \in DOMAIN errors :
        /\ errors[i].type = FORBIDDEN_DIRECTORY /\ errors[i].severity = "error"
        /\ errors[j].type = STRUCTURAL_VIOLATION /\ errors[j].severity = "error"
        /\ errors[k].type = LARGE_FILE /\ errors[k].severity = "warning"

NumberOf(list, sev) == Cardinality({i \in DOMAIN list : list[i].severity = sev})
\* the summary line printResults wrote for the list: its two counts
FailedLines == {j \in DOMAIN out : out[j].kind = "failed"}

DevToolsScripts == <<PACKAGES, DEV_TOOLS, SCRIPTS>>
\* the scripts violations in the list for packages/dev-tools/scripts/
DevToolsScriptsCount == CountOfText(errors, ScriptsText, Append(DevToolsScripts, N("")))
ScriptsListConfigured == config.allowedScriptsPackages # <<>>

\* C29: once the scripts rule has returned, a directory packages/dev-tools/scripts
\* has no violation when config.allowedScriptsPackages is absent (the default
\* {dev-tools} applies), and exactly one forbidden-directory error when a list is
\* configured that does not name dev-tools, the empty list included: the
\* configured list replaces the default.
C29_ConfiguredListReplacesDefault ==
    RuleDone(5) =>
        /\ ~ScriptsListConfigured => DevToolsScriptsCount = 0
        /\ (/\ ScriptsListConfigured
            /\ DEV_TOOLS \notin config.allowedScriptsPackages[1]
            /\ IsDirectoryAt(DevToolsScripts))
              => /\ DevToolsScriptsCount = 1
                 /\ \E i \in DOMAIN errors :
                       /\ errors[i].path = Append(DevToolsScripts, N(""))
                       /\ errors[i].type = FORBIDDEN_DIRECTORY
                       /\ errors[i].severity = "error"

\* the scripts rule returned under allowedScriptsPackages = [] on a tree with
\* packages/dev-tools/scripts, which it reported
C29_EmptyListFlagsDevTools ==
    /\ RuleDone(5)
    /\ config.allowedScriptsPackages = << {} >>
    /\ IsDirectoryAt(DevToolsScripts)
    /\ DevToolsScriptsCount = 1

Links == {n \in tree : n.kind = "other"}
\* no callback was invoked for, no walkDirectory call was made on, and no violation
\* names an entry that is neither a directory nor a regular file
LinksLeftAlone ==
    /\ \A i \in DOMAIN calls :
          /\ Exists(tree, calls[i].fullPath)
          /\ NodeAt(tree, calls[i].fullPath).kind = calls[i].kind
          /\ calls[i].kind \in {"dir", "file"}
    /\ \A i \in DOMAIN stack :
          stack[i].dir = opts.dir \/ IsDirectoryAt(stack[i].dir)
    /\ \A i \in DOMAIN errors : \A n \in Links : errors[i].path # n.path

\* no call of validate or of walkDirectory is in progress: none was made yet, or the
\* last one returned, threw to its caller, or ended the process
NoCallInProgress ==
    /\ pc \in {"idle", "returned", "rejected", "exited", "walked"}
    /\ stack = <<>>

\* C30: on the finite trees of the model every walkDirectory call and every call of
\* validate comes to an end (it returns after the report and the exit decision, or
\* it throws, to the catch of the main block or to its caller): at no point does a
\* call stay in progress for ever.  Entries that are neither directories nor
\* regular files, symbolic links among them, are neither descended into nor handed
\* to a callback nor reported.
C30_EveryRunTerminates ==
    /\ []LinksLeftAlone
    /\ []<>NoCallInProgress

\* a run got to its exit decision on a tree with a link named link.sh beside a
\* shell script: the script is reported, the link is not
C30_LinkBesideShellScript ==
    /\ pc = "decide"
    /\ finished = AllRules
    /\ Links # {}
    /\ \E i \in DOMAIN errors : errors[i].message.text = ShellText
    /\ \A i \in DOMAIN errors : \A n \in Links : errors[i].path # n.path

====
